---------------------------- MODULE Spec2Model ----------------------------
(***************************************************************************)
(* Content ingestion and resolution pipeline of the markdown CMS backend   *)
(* (backend/app/services.py, backend/app/main.py, backend/app/ai_service): *)
(* the upload import, the directory import, the category and article      *)
(* reads, the comments and summaries stores, the article entry points and  *)
(* the summarizer with its fallbacks.                                      *)
(*                                                                         *)
(* Strings that the code splits or joins on '/' (category ids, article     *)
(* ids, uploaded filenames) are modelled as the non-empty sequence of      *)
(* their '/'-separated segments: "a/b/x.md" is <<"a", "b", "x.md">>, the   *)
(* empty string is <<"">>, "/x.md" is <<"", "x.md">>.  str.split('/') is   *)
(* then the identity on that representation and f"{a}/{b}" is a \o b.      *)
(* Filesystem paths are absolute: the sequence of names below "/".         *)
(***************************************************************************)
EXTENDS Integers, Sequences, FiniteSets, TLC

\* ------------------------------------------------------------- bounds
\* Largest number of uploaded files in the specification with varied files.
MaxFiles == 3
\* Largest number of uploaded files in the specification with several batches.
MaxBatchFiles == 11
\* Largest number of comments add_comment is called with.
MaxComments == 3
\* Number of add_comment calls that overlap in the specification with workers.
MaxCallers == 2
\* Largest number of import_from_directory calls.
MaxImports == 2
MaxLiveFiles == 6

\* add_comment requests and directory imports among the requests that
\* construct the repository
MaxRepoComments == 2

MaxRepoImports == 1

\* -------------------------------------------------- program constants
BATCH_SIZE == 10
MAX_CONCURRENT == 5

VARIABLES
    dirs,           \* disk: the set of paths that are directories
    fileData,       \* disk: regular files, path -> content
    summaries,      \* disk: summaries.json, article id -> summary record
    initDirs,       \* history: dirs when import_from_uploads was called
    initFiles,      \* history: fileData when import_from_uploads was called
    canCreateRoot,  \* environment: whether mkdir of the content root succeeds
    files,          \* argument: the uploaded files, in input order
    categories,     \* argument: the filename -> category mapping
    mainpc,         \* position of the import_from_uploads coroutine
    i,              \* its loop variable: 0-based start of the current batch
    results,        \* its list of per-file results
    stats,          \* its statistics
    ret,            \* the value it returned
    pc,             \* position of each process_file task
    current_path,   \* process_file local, per task
    created_cats,   \* process_file local, per task
    taskResult,     \* the value each process_file task returned
    semaphore,      \* value of asyncio.Semaphore(MAX_CONCURRENT)
    running,        \* the task that holds the event loop in a blocking call, or 0
    listedFor,      \* the category_id of the last get_articles_by_category call
    listed,         \* what that call returned
    fetchedId,      \* the article_id of the last get_article call
    fetched,        \* what that call returned
    comments,       \* disk: comments.json, article id -> list of comment records
    added,          \* history: the comments add_comment was called with, per article id
    lastSaved,      \* history: the last two save_summary texts, per article id
    categoryList,   \* the last get_categories call and what it returned
    call,           \* the last request to an article entry point and its response
    callers,        \* add_comment calls in progress in separate workers
    dirImports,     \* history: the import_from_directory calls and what they returned
    aiCall          \* the last AIService.summarize_article call and what it returned

vars == <<dirs, fileData, summaries, initDirs, initFiles, canCreateRoot, files, categories,
          mainpc, i, results, stats, ret, pc, current_path, created_cats,
          taskResult, semaphore, running, listedFor, listed, fetchedId, fetched,
          comments, added, lastSaved, categoryList, call, callers, dirImports, aiCall>>

diskVars == <<dirs, fileData, summaries>>

uploadVars == <<initDirs, initFiles, canCreateRoot, files, categories, mainpc, i,
                results, stats, ret, pc, current_path, created_cats, taskResult,
                semaphore, running>>

readVars == <<listedFor, listed, fetchedId, fetched>>

sideVars == <<comments, added, lastSaved, categoryList, call, callers>>

importVars == <<dirImports, aiCall>>

\* Optional values that are None in the code
None == "None"

NoQuery == <<>>

NotFound == [found |-> FALSE]

\* no read has been made
NoReads ==
    /\ listedFor = NoQuery
    /\ listed = <<>>
    /\ fetchedId = NoQuery
    /\ fetched = NotFound

NotCalled == [called |-> FALSE]

\* no directory was imported and the summarizer was not called on its own
NoImports ==
    /\ dirImports = <<>>
    /\ aiCall = NotCalled

NoCall == [endpoint |-> "none"]

\* no comment or summary was stored through the service and no request was made
NoSideCalls ==
    /\ comments = << >>
    /\ added = << >>
    /\ lastSaved = << >>
    /\ categoryList = NotCalled
    /\ call = NoCall
    /\ callers = << >>

\* ---------------------------------------------------------- sequences
Front(s) == SubSeq(s, 1, Len(s) - 1)

Last(s) == s[Len(s)]

Min(a, b) == IF a < b THEN a ELSE b

\* --------------------------------------------------------- filesystem
content_dir == <<"content">>

Prefixes(p) == {SubSeq(p, 1, k) : k \in 0..Len(p)}

IsDir(D, p) == p \in D

IsFile(F, p) == p \in DOMAIN F

Exists(D, F, p) == IsDir(D, p) \/ IsFile(F, p)

\* pathlib: path / part for one part that holds no '/', as the file system
\* resolves the result: ".." is the parent directory (there are no links)
JoinPart(base, part) ==
    IF part \in {"", "."} THEN base
    ELSE IF part = ".." THEN (IF base = <<>> THEN base ELSE Front(base))
    ELSE Append(base, part)

\* Path.mkdir(parents=True, exist_ok=True) raises when a component is a regular file
MkdirOk(F, p) == \A q \in Prefixes(p) : ~IsFile(F, q)

\* open(target, "wb") succeeds when the parent is a directory and the target is none
CanOpenForWrite(D, F, target) == IsDir(D, Front(target)) /\ ~IsDir(D, target)

WriteFile(F, target, content) ==
    [p \in DOMAIN F \cup {target} |-> IF p = target THEN content ELSE F[p]]

\* A file's content is [text, utf8, lines]: a name for its bytes, whether they
\* decode as UTF-8, and the lines of the decoded text (str.splitlines()), each
\* line a sequence of tokens: "#", the whitespace " ", or a word.  The empty
\* text has no line.
\* bytes.decode('utf-8')
Utf8(content) == content.utf8

\* ------------------------------------------------ import_from_uploads
NoCategory == <<>>

FileName(k) == <<"f" \o ToString(k) \o ".md">>

\* os.path.basename
Basename(filename) == Last(filename)

\* the text AIService.summarize_article returns for an article text
SummaryOf(content) == "summary of " \o content.text

NoResult ==
    [success |-> FALSE, reason |-> "unresolved", created_categories |-> <<>>,
     summary_generated |-> FALSE]

ResNoCategory ==
    [success |-> FALSE, reason |-> "no_category", created_categories |-> <<>>,
     summary_generated |-> FALSE]

ResError ==
    [success |-> FALSE, reason |-> "error", created_categories |-> <<>>,
     summary_generated |-> FALSE]

ResPlaced(cats, generated) ==
    [success |-> TRUE, reason |-> "", created_categories |-> cats,
     summary_generated |-> generated]

EmptyStats ==
    [categories |-> 0, articles |-> 0, categories_created |-> <<>>, errors |-> 0,
     summaries_generated |-> 0]

NoReturn == [success |-> FALSE, message |-> "running"]

\* the loop over category_parts: creates each missing level, records the first one
RECURSIVE MkdirChain(_, _, _, _, _, _)
MkdirChain(D, F, parts, k, cur, created) ==
    IF k > Len(parts)
    THEN [ok |-> TRUE, dirs |-> D, path |-> cur, created_cats |-> created]
    ELSE LET nxt == JoinPart(cur, parts[k]) IN
         IF Exists(D, F, nxt)
         THEN MkdirChain(D, F, parts, k + 1, nxt, created)
         ELSE IF ~MkdirOk(F, nxt)
         THEN [ok |-> FALSE, dirs |-> D, path |-> nxt, created_cats |-> created]
         ELSE MkdirChain(D \cup Prefixes(nxt), F, parts, k + 1, nxt,
                         IF k = 1 THEN Append(created, parts[k]) ELSE created)

\* the files of the batch that starts at 0-based index b
Batch(b) == (b + 1)..Min(b + BATCH_SIZE, Len(files))

Tasks == 1..Len(files)

\* mutant: the gate admits one task too many
GateOpen_OffByOne == semaphore >= 0

\* async with semaphore: a permit is free
GateOpen == semaphore > 0

\* mutant: a waiting task passes the gate in any order
InputOrder_Any(t) == TRUE

\* gather starts the batch's tasks in input order and the semaphore wakes its
\* waiters in the order they arrived: t passes the gate after the files before it
InputOrder(t) == \A u \in Batch(i) : u < t => pc[u] # "pending"

\* mutant: a failed summary fails the file
SummaryFailed_AsError(cats) == ResError

\* lines 491-498: the summary step raised after the bytes were written
SummaryFailed(cats) == ResPlaced(cats, FALSE)

\* mutant: any failed file fails the import
NothingImported_AnyError(st) == st.articles = 0 \/ st.errors > 0

\* line 551
NothingImported(st) == st.articles = 0

\* mutant: gather returns with the first result
GatherResolved_First == \E t \in Batch(i) : pc[t] = "done"

\* asyncio.gather has every result of the batch
GatherResolved == \A t \in Batch(i) : pc[t] = "done"

\* one step of the aggregation loop
AddResult(st, result) ==
    IF result.success
    THEN LET new == SelectSeq(result.created_categories,
                              LAMBDA c : \A k \in 1..Len(st.categories_created) :
                                             st.categories_created[k] # c)
         IN [st EXCEPT !.articles = @ + 1,
                       !.categories = @ + Len(new),
                       !.categories_created = @ \o new,
                       !.summaries_generated =
                           IF result.summary_generated THEN @ + 1 ELSE @]
    ELSE [st EXCEPT !.errors = @ + 1]

RECURSIVE Aggregated(_, _)
Aggregated(st, rs) ==
    IF rs = <<>> THEN st ELSE Aggregated(AddResult(st, Head(rs)), Tail(rs))

\* lines 401-417: pre-flight, then the statistics start at zero
Start ==
    /\ UNCHANGED <<readVars, sideVars, importVars>>
    /\ mainpc = "start"
    /\ IF ~Exists(dirs, fileData, content_dir) /\ ~canCreateRoot
       THEN /\ ret' = [success |-> FALSE, message |-> "cannot create content directory"]
            /\ mainpc' = "returned"
            /\ UNCHANGED dirs
       ELSE /\ dirs' = dirs \cup Prefixes(content_dir)
            /\ mainpc' = "loop"
            /\ UNCHANGED ret
    /\ UNCHANGED <<fileData, summaries, initDirs, initFiles, canCreateRoot, files, categories,
                   i, results, stats, pc, current_path, created_cats, taskResult,
                   semaphore, running>>

\* lines 513-522: the next batch's tasks are created and handed to gather
StartBatch ==
    /\ UNCHANGED <<readVars, sideVars, importVars>>
    /\ mainpc = "loop"
    /\ i < Len(files)
    /\ pc' = [t \in Tasks |-> IF t \in Batch(i) THEN "pending" ELSE pc[t]]
    /\ mainpc' = "gather"
    /\ UNCHANGED <<dirs, fileData, summaries, initDirs, initFiles, canCreateRoot, files,
                   categories, i, results, stats, ret, current_path, created_cats,
                   taskResult, semaphore, running>>

\* lines 519-527: gather returns the batch's results in input order
FinishBatch ==
    /\ UNCHANGED <<readVars, sideVars, importVars>>
    /\ mainpc = "gather"
    /\ GatherResolved
    /\ results' = results \o [k \in 1..Cardinality(Batch(i)) |-> taskResult[i + k]]
    /\ i' = i + BATCH_SIZE
    /\ mainpc' = "loop"
    /\ UNCHANGED <<dirs, fileData, summaries, initDirs, initFiles, canCreateRoot, files,
                   categories, stats, ret, pc, current_path, created_cats,
                   taskResult, semaphore, running>>

\* lines 529-563: the statistics, then the result
Aggregate ==
    /\ UNCHANGED <<readVars, sideVars, importVars>>
    /\ mainpc = "loop"
    /\ i >= Len(files)
    /\ LET st == Aggregated(EmptyStats, results) IN
       /\ stats' = st
       /\ ret' = IF NothingImported(st)
                 THEN [success |-> FALSE, message |-> "no file imported"]
                 ELSE [success |-> TRUE, message |-> ""]
    /\ mainpc' = "returned"
    /\ UNCHANGED <<dirs, fileData, summaries, initDirs, initFiles, canCreateRoot, files,
                   categories, i, results, pc, current_path, created_cats,
                   taskResult, semaphore, running>>

\* mutant: a permit that was taken is never given back
PermitsAfter_Kept(held) == semaphore

\* async with semaphore: leaving the block, by return or by exception, releases
PermitsAfter(held) == IF held THEN semaphore + 1 ELSE semaphore

\* process_file returns: the permit goes back as the async with block is left
Return(t, result, held) ==
    /\ pc' = [pc EXCEPT ![t] = "done"]
    /\ taskResult' = [taskResult EXCEPT ![t] = result]
    /\ semaphore' = PermitsAfter(held)

\* lines 427-461: the task passes the gate (waiters are woken in the order they
\* arrived, which is input order), looks its category up, creates the directory
\* chain and suspends in file.read()
Admit(t) ==
    /\ UNCHANGED <<readVars, sideVars, importVars>>
    /\ pc[t] = "pending"
    /\ running = 0
    /\ GateOpen
    /\ InputOrder(t)
    /\ IF files[t].filename \notin DOMAIN categories
       THEN /\ Return(t, ResNoCategory, FALSE)
            /\ UNCHANGED <<dirs, current_path, created_cats>>
       ELSE LET chain == MkdirChain(dirs, fileData, categories[files[t].filename],
                                    1, content_dir, <<>>) IN
            /\ dirs' = chain.dirs
            /\ IF chain.ok
               THEN /\ pc' = [pc EXCEPT ![t] = "reading"]
                    /\ semaphore' = semaphore - 1
                    /\ current_path' = [current_path EXCEPT ![t] = chain.path]
                    /\ created_cats' = [created_cats EXCEPT ![t] = chain.created_cats]
                    /\ UNCHANGED taskResult
               ELSE /\ Return(t, ResError, FALSE)
                    /\ UNCHANGED <<current_path, created_cats>>
    /\ UNCHANGED <<fileData, summaries, initDirs, initFiles, canCreateRoot, files, categories,
                   mainpc, i, results, stats, ret, running>>

\* lines 461-479: file.read() returns, the bytes are written, the text is decoded
\* and the task enters the synchronous summarizer call without leaving the loop
ReadReturn(t) ==
    /\ UNCHANGED <<readVars, sideVars, importVars>>
    /\ pc[t] = "reading"
    /\ running = 0
    /\ LET target == JoinPart(current_path[t], Basename(files[t].filename)) IN
       IF \/ files[t].fault \in {"read", "write"}
          \/ ~CanOpenForWrite(dirs, fileData, target)
       THEN /\ Return(t, ResError, TRUE)
            /\ UNCHANGED <<fileData, running>>
       ELSE /\ fileData' = WriteFile(fileData, target, files[t].content)
            /\ IF Utf8(files[t].content)
               THEN /\ pc' = [pc EXCEPT ![t] = "summarizing"]
                    /\ running' = t
                    /\ UNCHANGED <<taskResult, semaphore>>
               ELSE /\ Return(t, SummaryFailed(created_cats[t]), TRUE)
                    /\ UNCHANGED running
    /\ UNCHANGED <<dirs, summaries, initDirs, initFiles, canCreateRoot, files, categories,
                   mainpc, i, results, stats, ret, current_path, created_cats>>

\* lines 479-498: the summarizer call returns or raises, the summary is saved
SummarizeReturn(t) ==
    /\ UNCHANGED <<readVars, sideVars, importVars>>
    /\ pc[t] = "summarizing"
    /\ running = t
    /\ LET article_id == categories[files[t].filename] \o <<Basename(files[t].filename)>> IN
       IF files[t].fault \in {"summarize", "save"}
       THEN /\ Return(t, SummaryFailed(created_cats[t]), TRUE)
            /\ UNCHANGED summaries
       ELSE /\ summaries' = [a \in DOMAIN summaries \cup {article_id} |->
                               IF a = article_id
                               THEN [summary |-> SummaryOf(files[t].content)]
                               ELSE summaries[a]]
            /\ Return(t, ResPlaced(created_cats[t], TRUE), TRUE)
    /\ running' = 0
    /\ UNCHANGED <<dirs, fileData, initDirs, initFiles, canCreateRoot, files, categories,
                   mainpc, i, results, stats, ret, current_path, created_cats>>

Next ==
    \/ Start
    \/ StartBatch
    \/ FinishBatch
    \/ Aggregate
    \/ \E t \in Tasks : Admit(t)
    \/ \E t \in Tasks : ReadReturn(t)
    \/ \E t \in Tasks : SummarizeReturn(t)

\* ------------------------------------------------------ initial states
Faults == {"none", "read", "write", "summarize", "save"}

UploadCategories == {<<"a">>, <<"b", "c">>}

\* what one uploaded file can be: its category (or none), its bytes, where it fails
UploadKinds ==
    {[cat |-> NoCategory, utf8 |-> TRUE, fault |-> "none"]}
    \cup {[cat |-> c, utf8 |-> TRUE, fault |-> f] : c \in UploadCategories, f \in Faults}
    \cup {[cat |-> c, utf8 |-> FALSE, fault |-> "none"] : c \in UploadCategories}

\* the content tree when the import starts: the top-level directories that exist
InitTrees == {{}, {"b"}}

\* a call with the files named names[k] of the kinds kinds[k], on the disk as it is
UploadCall(names, kinds, creatable) ==
    /\ initDirs = dirs
    /\ initFiles = fileData
    /\ canCreateRoot = creatable
    /\ files = [k \in 1..Len(kinds) |->
                  [filename |-> names[k],
                   content |-> [text |-> "text" \o ToString(k), utf8 |-> kinds[k].utf8,
                               lines |-> <<<<"#", " ", "text" \o ToString(k)>>>>],
                   fault |-> kinds[k].fault]]
    /\ categories = [fn \in {names[k] : k \in {j \in 1..Len(kinds) : kinds[j].cat # NoCategory}} |->
                       kinds[CHOOSE k \in 1..Len(kinds) : names[k] = fn].cat]
    /\ mainpc = "start"
    /\ i = 0
    /\ results = <<>>
    /\ stats = EmptyStats
    /\ ret = NoReturn
    /\ pc = [t \in 1..Len(kinds) |-> "uncreated"]
    /\ current_path = [t \in 1..Len(kinds) |-> <<>>]
    /\ created_cats = [t \in 1..Len(kinds) |-> <<>>]
    /\ taskResult = [t \in 1..Len(kinds) |-> NoResult]
    /\ semaphore = MAX_CONCURRENT
    /\ running = 0
    /\ NoReads
    /\ NoSideCalls
    /\ NoImports

\* such a call on a content tree that holds the top-level directories top
InitCallNamed(names, kinds, top, rootExists, creatable) ==
    /\ dirs = IF rootExists
              THEN Prefixes(content_dir) \cup {Append(content_dir, d) : d \in top}
              ELSE {<<>>}
    /\ fileData = << >>
    /\ summaries = << >>
    /\ UploadCall(names, kinds, creatable)

InitCall(kinds, top, rootExists, creatable) ==
    InitCallNamed([k \in 1..Len(kinds) |-> FileName(k)], kinds, top, rootExists, creatable)

Init ==
    \E n \in 0..MaxFiles : \E kinds \in [1..n -> UploadKinds] :
        \/ \E top \in InitTrees : InitCall(kinds, top, TRUE, TRUE)
        \/ \E creatable \in BOOLEAN : InitCall(kinds, {}, FALSE, creatable)

Spec == Init /\ [][Next]_vars

\* Several batches: MaxBatchFiles files of one category, of which at most one is
\* left out of the mapping or fails in file.read()
PlainKind == [cat |-> <<"a">>, utf8 |-> TRUE, fault |-> "none"]

OddKinds ==
    {[cat |-> NoCategory, utf8 |-> TRUE, fault |-> "none"],
     [cat |-> <<"a">>, utf8 |-> TRUE, fault |-> "read"]}

InitBatch ==
    \E odd \in 0..MaxBatchFiles : \E kind \in OddKinds :
        InitCall([k \in 1..MaxBatchFiles |-> IF k = odd THEN kind ELSE PlainKind],
                 {}, TRUE, TRUE)

SpecBatch == InitBatch /\ [][Next]_vars

\* An upload whose file names are paths: two files of different directories
\* with the same base name, and a third file
PathNames == <<<<"d1", "x.md">>, <<"d2", "x.md">>, <<"y.md">>>>

InitPaths ==
    \E kinds \in [1..Len(PathNames) -> UploadKinds] : \E top \in InitTrees :
        /\ kinds[1].cat # NoCategory
        /\ kinds[2].cat = kinds[1].cat
        /\ InitCallNamed(PathNames, kinds, top, TRUE, TRUE)

SpecPaths == InitPaths /\ [][Next]_vars

\* An upload whose category strings and file names are whatever the request
\* holds.  The categories: "../data", "/a", "a//b", "a/../b", "a"
OddCategories ==
    {<<"..", "data">>, <<"", "a">>, <<"a", "", "b">>, <<"a", "..", "b">>, <<"a">>}

\* the file names: "comments.json", "../x.md", "/etc/y.md"
OddNames == <<<<"comments.json">>, <<"..", "x.md">>, <<"", "etc", "y.md">>>>

InitOdd ==
    \E kinds \in [1..Len(OddNames) ->
                      {[cat |-> c, utf8 |-> TRUE, fault |-> "none"] :
                           c \in OddCategories \cup {NoCategory}}] :
        InitCallNamed(OddNames, kinds, {}, TRUE, TRUE)

SpecOdd == InitOdd /\ [][Next]_vars

\* One batch that overfills the gate: MaxLiveFiles files of one category, of
\* which at most one has no category or raises in the read, the write or the
\* summarizer
LiveOddKinds ==
    {[cat |-> NoCategory, utf8 |-> TRUE, fault |-> "none"]}
    \cup {[cat |-> <<"a">>, utf8 |-> TRUE, fault |-> f] : f \in {"read", "write", "summarize"}}
    \cup {[cat |-> <<"a">>, utf8 |-> FALSE, fault |-> "none"]}

InitLive ==
    \E odd \in 0..MaxLiveFiles : \E kind \in LiveOddKinds :
        InitCall([k \in 1..MaxLiveFiles |-> IF k = odd THEN kind ELSE PlainKind],
                 {}, TRUE, TRUE)

\* The event loop runs every task that can run, and every file.read() and every
\* summarizer call returns or raises
Fairness ==
    /\ WF_vars(Start)
    /\ WF_vars(StartBatch)
    /\ WF_vars(FinishBatch)
    /\ WF_vars(Aggregate)
    /\ \A t \in 1..MaxLiveFiles :
           WF_vars(Admit(t)) /\ WF_vars(ReadReturn(t)) /\ WF_vars(SummarizeReturn(t))

SpecLive == InitLive /\ [][Next]_vars /\ Fairness

\* ------------------------------------------------------------- reads
\* the names of this model that end in ".md" (str.endswith('.md'))
MdNames ==
    {"x.md", "y.md", "d.md", "e.md", "u.md"} \cup {Basename(FileName(k)) : k \in 1..(MaxFiles + MaxBatchFiles)}

EndsWithMd(item) == item \in MdNames

\* the names of this model that start with '.' (str.startswith('.'))
IsHidden(item) == item \in {".h", ".", ".."}

\* os.listdir
ListDir(D, F, p) ==
    {q[Len(p) + 1] : q \in {r \in D \cup DOMAIN F :
                               Len(r) = Len(p) + 1 /\ SubSeq(r, 1, Len(p)) = p}}

\* pathlib drops empty and "." segments of a joined string
Clean(segs) == SelectSeq(segs, LAMBDA x : x \notin {"", "."})

\* a string that starts with '/'
IsAbsolute(str) == Len(str) >= 2 /\ str[1] = ""

\* pathlib: path / str for a string that may hold '/' (an absolute one replaces path)
JoinStr(base, str) == IF IsAbsolute(str) THEN Clean(str) ELSE base \o Clean(str)

\* summaries.get(article_id, {}).get('summary', None)
SummaryFor(S, article_id) ==
    IF article_id \in DOMAIN S THEN S[article_id].summary ELSE None

\* comments.get(article_id, [])
CommentsFor(C, article_id) ==
    IF article_id \in DOMAIN C THEN C[article_id] ELSE <<>>

\* str.lstrip('#')
RECURSIVE LStripHash(_)
LStripHash(line) ==
    IF line # <<>> /\ Head(line) = "#" THEN LStripHash(Tail(line)) ELSE line

\* str.strip()
RECURSIVE Strip(_)
Strip(line) ==
    IF line # <<>> /\ Head(line) = " " THEN Strip(Tail(line))
    ELSE IF line # <<>> /\ Last(line) = " " THEN Strip(Front(line))
    ELSE line

\* content.splitlines()[0].lstrip('#').strip() if content else <the file's name>
Title(content, name) ==
    IF content.lines = <<>> THEN <<name>> ELSE Strip(LStripHash(content.lines[1]))

\* item.replace('.md', '') for the names of this model
WithoutMd(item) ==
    IF \E k \in 1..(MaxFiles + MaxBatchFiles) : item = Basename(FileName(k))
    THEN "f" \o ToString(CHOOSE k \in 1..(MaxFiles + MaxBatchFiles) : item = Basename(FileName(k)))
    ELSE CASE item = "x.md" -> "x"
           [] item = "y.md" -> "y"
           [] item = "e.md" -> "e"
           [] item = "u.md" -> "u"
           [] item = "d.md" -> "d"
           [] OTHER -> item

\* get_articles_by_category.process_directory; os.listdir gives the items in an
\* order of its own, here the order CHOOSE takes them in.  open(..., 'r') raises
\* for a directory and for bytes that do not decode.
RECURSIVE ArticlesIn(_, _, _, _, _, _), ArticlesOf(_, _, _, _, _, _, _)
ArticlesIn(D, F, S, C, dir_path, current_category) ==
    ArticlesOf(D, F, S, C, dir_path, current_category, ListDir(D, F, dir_path))

ArticlesOf(D, F, S, C, dir_path, current_category, items) ==
    IF items = {} THEN <<>>
    ELSE LET item == CHOOSE x \in items : TRUE
             item_path == Append(dir_path, item)
             rest == ArticlesOf(D, F, S, C, dir_path, current_category, items \ {item})
         IN IF EndsWithMd(item)
            THEN <<[id |-> current_category \o <<item>>,
                    title |-> IF IsFile(F, item_path) /\ Utf8(F[item_path])
                              THEN Title(F[item_path], item)
                              ELSE <<WithoutMd(item)>>,
                    category_id |-> current_category,
                    summary |-> SummaryFor(S, current_category \o <<item>>),
                    comment_count |-> Len(CommentsFor(C, current_category \o <<item>>)),
                    path |-> item_path]>> \o rest
            ELSE IF IsDir(D, item_path) /\ ~IsHidden(item)
            THEN ArticlesIn(D, F, S, C, item_path, current_category \o <<item>>) \o rest
            ELSE rest

GetArticlesByCategory(D, F, S, C, category_id) ==
    LET category_path == JoinStr(content_dir, category_id) IN
    IF ~IsDir(D, category_path) THEN <<>>
    ELSE ArticlesIn(D, F, S, C, category_path, category_id)

GetArticle(D, F, S, C, article_id) ==
    IF Len(article_id) < 2 THEN NotFound
    ELSE LET category_id == Front(article_id)
             filename == Last(article_id)
             file_path == JoinStr(JoinStr(content_dir, category_id), <<filename>>)
             alt_path == JoinStr(content_dir, article_id)
         IN IF ~IsFile(F, file_path) /\ ~IsFile(F, alt_path) THEN NotFound
            ELSE LET path == IF IsFile(F, file_path) THEN file_path ELSE alt_path IN
                 IF ~Utf8(F[path]) THEN NotFound
                 ELSE [found |-> TRUE, id |-> article_id,
                       title |-> Title(F[path], filename),
                       category_id |-> category_id,
                       content |-> F[path], summary |-> SummaryFor(S, article_id),
                       comment_count |-> Len(CommentsFor(C, article_id)),
                       path |-> path]

\* the category ids the model asks for: "a", "a/b", "a/", "", ".h", "zz"
QueryCategories == {<<"a">>, <<"a", "b">>, <<"a", "">>, <<"">>, <<".h">>, <<"zz">>}

\* the article ids the model asks for besides the listed ones:
\* "x.md", "a/x.md", "/x.md", "a/zz.md", "a/b"
QueryIds == {<<"x.md">>, <<"a", "x.md">>, <<"", "x.md">>, <<"a", "zz.md">>, <<"a", "b">>}

ListArticles(category_id) ==
    /\ listedFor' = category_id
    /\ listed' = GetArticlesByCategory(dirs, fileData, summaries, comments, category_id)
    /\ UNCHANGED <<fetchedId, fetched, diskVars, uploadVars, sideVars, importVars>>

FetchArticle(article_id) ==
    /\ fetchedId' = article_id
    /\ fetched' = GetArticle(dirs, fileData, summaries, comments, article_id)
    /\ UNCHANGED <<listedFor, listed, diskVars, uploadVars, sideVars, importVars>>

NextRead ==
    \/ \E c \in QueryCategories : ListArticles(c)
    \/ \E a \in QueryIds \cup {listed[k].id : k \in 1..Len(listed)} : FetchArticle(a)

\* the content trees the reads start from: directories and files below the root
TreeDirs == {<<"a">>, <<"a", "b">>, <<"a", "d.md">>, <<".h">>}

TreeFiles == {<<"x.md">>, <<"a", "x.md">>, <<"a", "b", "y.md">>, <<"a", "n.txt">>,
              <<".h", "x.md">>}

TextOf(rel) ==
    [text |-> "text of " \o rel[Len(rel)] \o " in " \o ToString(Len(rel)), utf8 |-> TRUE,
     lines |-> <<<<"#", " ", rel[Len(rel)]>>>>]

InitRead ==
    \E ds \in SUBSET TreeDirs : \E fs \in SUBSET TreeFiles :
        /\ \A d \in ds : Len(d) > 1 => Front(d) \in ds
        /\ \A f \in fs : Len(f) > 1 => Front(f) \in ds
        /\ dirs = Prefixes(content_dir) \cup {content_dir \o d : d \in ds}
        /\ fileData = [p \in {content_dir \o f : f \in fs} |->
                         TextOf(SubSeq(p, Len(content_dir) + 1, Len(p)))]
        /\ summaries = << >>
        /\ initDirs = dirs
        /\ initFiles = fileData
        /\ canCreateRoot = TRUE
        /\ files = <<>>
        /\ categories = << >>
        /\ mainpc = "idle"
        /\ i = 0
        /\ results = <<>>
        /\ stats = EmptyStats
        /\ ret = NoReturn
        /\ pc = <<>>
        /\ current_path = <<>>
        /\ created_cats = <<>>
        /\ taskResult = <<>>
        /\ semaphore = MAX_CONCURRENT
        /\ running = 0
        /\ NoReads
        /\ NoSideCalls
        /\ NoImports

SpecRead == InitRead /\ [][NextRead]_vars

\* ------------------------------------------------ comments and summaries
\* the number of comments add_comment was called with
RECURSIVE CountOver(_, _)
CountOver(H, ids) ==
    IF ids = {} THEN 0
    ELSE LET a == CHOOSE x \in ids : TRUE IN Len(H[a]) + CountOver(H, ids \ {a})

Count(H) == CountOver(H, DOMAIN H)

\* datetime.isoformat(), as _json_serializer writes a datetime
IsoFormat(t) == "T" \o ToString(t)

\* the datetime pydantic reads back from an ISO string
ParseDatetime(str) == CHOOSE t \in 0..(MaxComments + 1) : IsoFormat(t) = str

\* Comment(id=str(uuid.uuid4()), ..., created_at=datetime.now()): the n-th comment
\* made gets a fresh id and the clock's reading
NewComment(n, article_id, author, content) ==
    [id |-> "uuid" \o ToString(n), article_id |-> article_id, author |-> author,
     content |-> content, created_at |-> n]

\* comment.dict() as json.dump writes it
CommentDict(comment) == [comment EXCEPT !.created_at = IsoFormat(@)]

\* lines 253-257 for the other way to keep the list: the new comment replaces it
Appended_Replaces(list, comment) == <<CommentDict(comment)>>

\* lines 253-257: comments_data[article_id].append(comment.dict())
Appended(list, comment) == Append(list, CommentDict(comment))

\* add_comment's comments_data when it saves, from the comments_data it loaded
WithComment(C, article_id, comment) ==
    [a \in DOMAIN C \cup {article_id} |->
        IF a = article_id THEN Appended(CommentsFor(C, a), comment) ELSE C[a]]

\* get_comments: [Comment(**comment) for comment in article_comments]
GetComments(C, article_id) ==
    LET article_comments == CommentsFor(C, article_id) IN
    [k \in 1..Len(article_comments) |->
        [article_comments[k] EXCEPT !.created_at = ParseDatetime(@)]]

\* lines 269-272 for the other way to keep a summary: the first one stays
Updated_KeepsFirst(S, article_id, summary) ==
    IF article_id \in DOMAIN S THEN S[article_id] ELSE [summary |-> summary]

\* lines 269-272: summaries[article_id] = {'summary': summary, ...}
Updated(S, article_id, summary) == [summary |-> summary]

\* save_summary's summaries when it saves
WithSummary(S, article_id, summary) ==
    [a \in DOMAIN S \cup {article_id} |->
        IF a = article_id THEN Updated(S, article_id, summary) ELSE S[a]]

\* the history of add_comment calls after one more
Recorded(H, article_id, comment) ==
    [a \in DOMAIN H \cup {article_id} |->
        IF a = article_id
        THEN (IF a \in DOMAIN H THEN H[a] ELSE <<>>) \o <<comment>>
        ELSE H[a]]

\* the history of save_summary calls after one more: per article id the text of
\* the last call and of the one before it
Remembered(H, article_id, summary) ==
    [a \in DOMAIN H \cup {article_id} |->
        IF a = article_id
        THEN [summary |-> summary,
              previous |-> IF a \in DOMAIN H THEN H[a].summary ELSE None]
        ELSE H[a]]

\* ContentService.add_comment, load to save in one step
AddComment(article_id, author, content) ==
    /\ Count(added) < MaxComments
    /\ LET comment == NewComment(Count(added) + 1, article_id, author, content) IN
       /\ comments' = WithComment(comments, article_id, comment)
       /\ added' = Recorded(added, article_id, comment)
    /\ UNCHANGED <<dirs, fileData, summaries, lastSaved, categoryList, call, callers,
                   readVars, uploadVars, importVars>>

\* ContentService.save_summary
SaveSummary(article_id, summary) ==
    /\ summaries' = WithSummary(summaries, article_id, summary)
    /\ lastSaved' = Remembered(lastSaved, article_id, summary)
    /\ UNCHANGED <<dirs, fileData, comments, added, categoryList, call, callers,
                   readVars, uploadVars, importVars>>

\* the article ids add_comment is called with: "a/x.md", "a/b/y.md", "a/zz.md"
StoreIds == {<<"a", "x.md">>, <<"a", "b", "y.md">>, <<"a", "zz.md">>}

\* the article ids save_summary is called with: "a/x.md", "a/zz.md"
SummaryIds == {<<"a", "x.md">>, <<"a", "zz.md">>}

Authors == {"ann"}

CommentTexts == {"A", "B"}

SummaryTexts == {"X", "Y"}

NextStore ==
    \/ \E a \in StoreIds : \E author \in Authors : \E content \in CommentTexts :
           AddComment(a, author, content)
    \/ \E a \in SummaryIds : \E summary \in SummaryTexts : SaveSummary(a, summary)

\* no import is running
IdleImport ==
    /\ initDirs = dirs
    /\ initFiles = fileData
    /\ canCreateRoot = TRUE
    /\ files = <<>>
    /\ categories = << >>
    /\ mainpc = "idle"
    /\ i = 0
    /\ results = <<>>
    /\ stats = EmptyStats
    /\ ret = NoReturn
    /\ pc = <<>>
    /\ current_path = <<>>
    /\ created_cats = <<>>
    /\ taskResult = <<>>
    /\ semaphore = MAX_CONCURRENT
    /\ running = 0

\* the content tree the service calls start from: the directories a and a/b with
\* some of these files
SideFiles == {<<"a", "x.md">>, <<"a", "b", "y.md">>}

InitTreeOf(fs) ==
    /\ dirs = Prefixes(content_dir) \cup {content_dir \o <<"a">>, content_dir \o <<"a", "b">>}
    /\ fileData = [p \in {content_dir \o f : f \in fs} |->
                     TextOf(SubSeq(p, Len(content_dir) + 1, Len(p)))]
    /\ summaries = << >>
    /\ IdleImport
    /\ NoReads

InitStore ==
    \E fs \in SUBSET SideFiles : InitTreeOf(fs) /\ NoSideCalls /\ NoImports

SpecStore == InitStore /\ [][NextStore]_vars

\* ------------------------------------------------- article entry points
\* main.py get_article: the article id from the route's two parameters
GetArticleId(category_id, filename) ==
    IF Len(filename) > 1
    THEN LET parts == filename
             actual_filename == <<Last(parts)>>
         IN (category_id \o Front(parts)) \o actual_filename
    ELSE category_id \o filename

\* main.py get_comments: the same lines
GetCommentsId(category_id, filename) ==
    IF Len(filename) > 1
    THEN LET parts == filename
             actual_filename == <<Last(parts)>>
         IN (category_id \o Front(parts)) \o actual_filename
    ELSE category_id \o filename

\* main.py add_comment for a handler that takes the first segment as the filename
AddCommentId_FirstSegment(category_id, filename) ==
    IF Len(filename) > 1
    THEN LET parts == filename
             actual_filename == <<Head(parts)>>
         IN (category_id \o Front(parts)) \o actual_filename
    ELSE category_id \o filename

\* main.py add_comment: the same lines
AddCommentId(category_id, filename) ==
    IF Len(filename) > 1
    THEN LET parts == filename
             actual_filename == <<Last(parts)>>
         IN (category_id \o Front(parts)) \o actual_filename
    ELSE category_id \o filename

\* main.py summarize_article: the same lines
SummarizeArticleId(category_id, filename) ==
    IF Len(filename) > 1
    THEN LET parts == filename
             actual_filename == <<Last(parts)>>
         IN (category_id \o Front(parts)) \o actual_filename
    ELSE category_id \o filename

\* the response's status: 404 is HTTPException(status_code=404)
Responded(endpoint, category_id, filename, article_id, found) ==
    [endpoint |-> endpoint, category_id |-> category_id, filename |-> filename,
     article_id |-> article_id, status |-> IF found THEN 200 ELSE 404]

\* GET /api/articles/{category_id}/{filename:path}
GetArticleRoute(category_id, filename) ==
    LET article_id == GetArticleId(category_id, filename)
        article == GetArticle(dirs, fileData, summaries, comments, article_id)
    IN /\ call' = Responded("get_article", category_id, filename, article_id, article.found)
       /\ UNCHANGED <<diskVars, comments, added, lastSaved, categoryList, callers,
                      readVars, uploadVars, importVars>>

\* GET /api/articles/{category_id}/{filename:path}/comments
GetCommentsRoute(category_id, filename) ==
    LET article_id == GetCommentsId(category_id, filename) IN
    /\ call' = Responded("get_comments", category_id, filename, article_id, TRUE)
    /\ UNCHANGED <<diskVars, comments, added, lastSaved, categoryList, callers,
                   readVars, uploadVars, importVars>>

\* the add_comment handler without its check
Verified_Unchecked(article) == TRUE

\* main.py lines 105-108: if not article: raise HTTPException(404)
Verified(article) == article.found

\* POST /api/articles/{category_id}/{filename:path}/comments
AddCommentRoute(category_id, filename, author, content) ==
    LET article_id == AddCommentId(category_id, filename)
        article == GetArticle(dirs, fileData, summaries, comments, article_id)
    IN /\ Count(added) < MaxComments
       /\ call' = Responded("add_comment", category_id, filename, article_id,
                            Verified(article))
       /\ IF Verified(article)
          THEN LET comment == NewComment(Count(added) + 1, article_id, author, content) IN
               /\ comments' = WithComment(comments, article_id, comment)
               /\ added' = Recorded(added, article_id, comment)
          ELSE UNCHANGED <<comments, added>>
       /\ UNCHANGED <<diskVars, lastSaved, categoryList, callers, readVars, uploadVars, importVars>>

\* POST /api/articles/{category_id}/{filename:path}/summarize
SummarizeRoute(category_id, filename) ==
    LET article_id == SummarizeArticleId(category_id, filename)
        article == GetArticle(dirs, fileData, summaries, comments, article_id)
    IN /\ call' = Responded("summarize", category_id, filename, article_id, article.found)
       /\ IF article.found
          THEN /\ summaries' = WithSummary(summaries, article_id, SummaryOf(article.content))
               /\ lastSaved' = Remembered(lastSaved, article_id, SummaryOf(article.content))
          ELSE UNCHANGED <<summaries, lastSaved>>
       /\ UNCHANGED <<dirs, fileData, comments, added, categoryList, callers,
                      readVars, uploadVars, importVars>>

\* the route parameters: category_id holds no '/', filename is the rest of the path
RouteCategories == {<<"a">>, <<"zz">>}

\* "x.md", "b/y.md", "/x.md", "b/"
RouteFilenames == {<<"x.md">>, <<"b", "y.md">>, <<"", "x.md">>, <<"b", "">>}

NextApi ==
    \/ \E c \in RouteCategories : \E f \in RouteFilenames : GetArticleRoute(c, f)
    \/ \E c \in RouteCategories : \E f \in RouteFilenames : GetCommentsRoute(c, f)
    \/ \E c \in RouteCategories : \E f \in RouteFilenames : \E author \in Authors :
           AddCommentRoute(c, f, author, "A")
    \/ \E c \in RouteCategories : \E f \in RouteFilenames : SummarizeRoute(c, f)

SpecApi == InitStore /\ [][NextApi]_vars

\* ---------------------------------------------------------- categories
\* os.listdir gives the names in an order of its own: one of these
ListOrders ==
    {<<".h", "a", "b", "c", "h", "e.md", "n.txt", "u.md", "x.md", "y.md">>,
     <<"y.md", "x.md", "u.md", "n.txt", "e.md", "h", "c", "b", "a", ".h">>}

\* os.listdir(p) as the list it is
ListDirSeq(D, F, p, order) == SelectSeq(order, LAMBDA n : n \in ListDir(D, F, p))

\* lines 75-82 for a probe that looks for markdown entries only
HasContent_MdOnly(D, F, item_path) ==
    \E file \in ListDir(D, F, item_path) : EndsWithMd(file)

\* lines 75-82: the probe for markdown files or subdirectories
HasContent(D, F, item_path) ==
    \E file \in ListDir(D, F, item_path) :
        EndsWithMd(file) \/ IsDir(D, Append(item_path, file))

\* line 86 for an id that leaves the parent out
CategoryId_NoParent(parent_id, item) == <<item>>

\* line 86: item if parent_id is None else f"{parent_id}/{item}"; None is <<>>
CategoryId(parent_id, item) ==
    IF parent_id = <<>> THEN <<item>> ELSE parent_id \o <<item>>

\* get_categories.process_directory
RECURSIVE CategoriesIn(_, _, _, _, _), CategoriesOf(_, _, _, _, _, _)
CategoriesIn(D, F, order, dir_path, parent_id) ==
    CategoriesOf(D, F, order, dir_path, parent_id, ListDirSeq(D, F, dir_path, order))

CategoriesOf(D, F, order, dir_path, parent_id, items) ==
    IF items = <<>> THEN <<>>
    ELSE LET item == Head(items)
             item_path == Append(dir_path, item)
             rest == CategoriesOf(D, F, order, dir_path, parent_id, Tail(items))
         IN IF IsDir(D, item_path) /\ ~IsHidden(item) /\ HasContent(D, F, item_path)
            THEN LET category_id == CategoryId(parent_id, item) IN
                 (<<[id |-> category_id, name |-> item, path |-> item_path]>>
                    \o CategoriesIn(D, F, order, item_path, category_id)) \o rest
            ELSE rest

GetCategories(D, F, order) == CategoriesIn(D, F, order, content_dir, <<>>)

\* GET /api/categories
ListCategories(order) ==
    /\ categoryList' = [called |-> TRUE, categories |-> GetCategories(dirs, fileData, order)]
    /\ UNCHANGED <<diskVars, comments, added, lastSaved, call, callers, readVars, uploadVars, importVars>>

\* the content trees the category listing starts from
CategoryDirs ==
    {<<"a">>, <<"a", "b">>, <<"a", "b", "c">>, <<"h">>, <<"h", ".h">>, <<".h">>}

CategoryFiles ==
    {<<"a", "x.md">>, <<"a", "e.md">>, <<"a", "u.md">>, <<"a", "b", "n.txt">>,
     <<"a", "b", "c", "y.md">>, <<"h", ".h", "x.md">>, <<".h", "x.md">>}

\* what the files of those trees hold: y.md starts with a blank line, e.md is
\* empty, u.md does not decode, the others start with a heading
ContentOf(rel) ==
    LET name == Last(rel) IN
    [text |-> "text of " \o name,
     utf8 |-> name # "u.md",
     lines |-> CASE name = "y.md" -> <<<<>>, <<"#", " ", "T">>>>
                 [] name = "e.md" -> <<>>
                 [] name = "x.md" -> <<<<"#", "#", " ", "T", " ">>, <<"more">>>>
                 [] OTHER -> <<<<"T">>>>]

InitTree ==
    \E ds \in SUBSET CategoryDirs : \E fs \in SUBSET CategoryFiles :
        /\ \A d \in ds : Len(d) > 1 => Front(d) \in ds
        /\ \A f \in fs : Front(f) \in ds
        /\ dirs = Prefixes(content_dir) \cup {content_dir \o d : d \in ds}
        /\ fileData = [p \in {content_dir \o f : f \in fs} |->
                         ContentOf(SubSeq(p, Len(content_dir) + 1, Len(p)))]
        /\ summaries = << >>
        /\ IdleImport
        /\ NoReads
        /\ NoSideCalls
        /\ NoImports

\* the category ids the articles are listed for: "a", "a/b", "h"
TreeQueries == {<<"a">>, <<"a", "b">>, <<"h">>}

NextTree ==
    \/ \E order \in ListOrders : ListCategories(order)
    \/ \E c \in TreeQueries : ListArticles(c)
    \/ \E a \in {listed[k].id : k \in 1..Len(listed)} \cup {<<"a", "u.md">>} : FetchArticle(a)

SpecTree == InitTree /\ [][NextTree]_vars

\* ------------------------------------------- add_comment in two workers
\* add_comment up to its save, for a call made in a worker of its own: the
\* comments file is loaded and the Comment is made
LoadComments(p) ==
    /\ callers[p].pc = "called"
    /\ LET comment == NewComment(Count(added) + 1, callers[p].article_id,
                                 callers[p].author, callers[p].content) IN
       /\ callers' = [callers EXCEPT ![p] = [@ EXCEPT !.pc = "loaded",
                                                      !.comments_data = comments,
                                                      !.comment = comment]]
       /\ added' = Recorded(added, callers[p].article_id, comment)
    /\ UNCHANGED <<diskVars, comments, lastSaved, categoryList, call, readVars, uploadVars, importVars>>

\* the rest of add_comment: the list is extended and the whole mapping is written
SaveComments(p) ==
    /\ callers[p].pc = "loaded"
    /\ comments' = WithComment(callers[p].comments_data, callers[p].article_id,
                               callers[p].comment)
    /\ callers' = [callers EXCEPT ![p] = [@ EXCEPT !.pc = "done"]]
    /\ UNCHANGED <<diskVars, added, lastSaved, categoryList, call, readVars, uploadVars, importVars>>

NextRace ==
    \/ \E p \in DOMAIN callers : LoadComments(p)
    \/ \E p \in DOMAIN callers : SaveComments(p)

InitRace ==
    \E fs \in SUBSET SideFiles :
    \E ids \in [1..MaxCallers -> StoreIds] : \E texts \in [1..MaxCallers -> CommentTexts] :
        /\ InitTreeOf(fs)
        /\ comments = << >>
        /\ added = << >>
        /\ lastSaved = << >>
        /\ categoryList = NotCalled
        /\ call = NoCall
        /\ NoImports
        /\ callers = [p \in 1..MaxCallers |->
                        [pc |-> "called", article_id |-> ids[p], author |-> "ann",
                         content |-> texts[p], comments_data |-> << >>,
                         comment |-> None]]

SpecRace == InitRace /\ [][NextRace]_vars

\* ---------------------------------------------- import_from_directory
\* os.path.relpath(root, source_dir): "." for the source directory itself
RelPath(root, source_dir) ==
    IF root = source_dir THEN <<".">> ELSE SubSeq(root, Len(source_dir) + 1, Len(root))

\* lines 338-343: os.walk(source_dir) goes top-down; a directory gives its
\* markdown files, then what its subdirectories give
RECURSIVE Walk(_, _, _, _, _), WalkDirs(_, _, _, _, _, _)
Walk(D, F, order, source_dir, root) ==
    LET names == ListDirSeq(D, F, root, order)
        md == SelectSeq(names, LAMBDA n : IsFile(F, Append(root, n)) /\ EndsWithMd(n))
        subs == SelectSeq(names, LAMBDA n : IsDir(D, Append(root, n)))
    IN [k \in 1..Len(md) |->
           [file_path |-> Append(root, md[k]), rel_path |-> RelPath(root, source_dir)]]
       \o WalkDirs(D, F, order, source_dir, root, subs)

WalkDirs(D, F, order, source_dir, root, subs) ==
    IF subs = <<>> THEN <<>>
    ELSE Walk(D, F, order, source_dir, Append(root, Head(subs)))
         \o WalkDirs(D, F, order, source_dir, root, Tail(subs))

\* lines 354-359: the category of a file found in rel_path
CategoryOf(source_dir, rel_path) ==
    IF rel_path = <<".">> THEN <<Basename(source_dir)>> ELSE rel_path

\* line 369 for a count of every directory creation
Uncounted_Always(top_level_category, created_categories) == TRUE

\* line 369: if top_level_category not in created_categories
Uncounted(top_level_category, created_categories) ==
    top_level_category \notin created_categories

\* shutil.copy2: the bytes of the source replace what dst held
Copied(F, dst, content) == WriteFile(F, dst, content)

\* shutil.copy2(file_path, target_file) writes into target_file when it is a directory
CopyTarget(D, target_file, filename) ==
    IF IsDir(D, target_file) THEN Append(target_file, filename) ELSE target_file

\* lines 352-384: one turn of the loop over md_files; an exception leaves the
\* loop's state as it was when it was raised
ImportStep(st, source_dir, entry) ==
    LET category == CategoryOf(source_dir, entry.rel_path)
        category_dir == JoinStr(content_dir, category)
        absent == ~Exists(st.dirs, st.files, category_dir)
    IN IF absent /\ ~MkdirOk(st.files, category_dir) THEN st
       ELSE LET D1 == IF absent THEN st.dirs \cup Prefixes(category_dir) ELSE st.dirs
                top_level_category == category[1]
                counted == absent /\ Uncounted(top_level_category, st.created_categories)
                stats1 == IF counted
                          THEN [st.stats EXCEPT !.categories = @ + 1,
                                                !.categories_created =
                                                    Append(@, top_level_category)]
                          ELSE st.stats
                created1 == IF counted
                            THEN st.created_categories \cup {top_level_category}
                            ELSE st.created_categories
                filename == Basename(entry.file_path)
                dst == CopyTarget(D1, Append(category_dir, filename), filename)
            IN IF CanOpenForWrite(D1, st.files, dst) /\ dst # entry.file_path
               THEN [dirs |-> D1,
                     files |-> Copied(st.files, dst, st.files[entry.file_path]),
                     stats |-> [stats1 EXCEPT !.articles = @ + 1],
                     created_categories |-> created1]
               ELSE [dirs |-> D1, files |-> st.files, stats |-> stats1,
                     created_categories |-> created1]

RECURSIVE ImportAll(_, _, _)
ImportAll(st, source_dir, md_files) ==
    IF md_files = <<>> THEN st
    ELSE ImportAll(ImportStep(st, source_dir, Head(md_files)), source_dir, Tail(md_files))

\* line 336
EmptyDirStats == [categories |-> 0, articles |-> 0, categories_created |-> <<>>]

\* line 345 for an import that goes on without any markdown file
NoMarkdown_Ignored(md_files) == FALSE

\* line 345: if not md_files
NoMarkdown(md_files) == md_files = <<>>

\* line 387 for a result that depends on the copies
Succeeded_IfAnyCopied(counts) == counts.articles > 0

\* line 387: return {"success": True, "stats": stats}
Succeeded(counts) == TRUE

\* import_from_directory as a function of the disk: what it returns and leaves
ImportFrom(D, F, source_dir, order) ==
    IF ~IsDir(D, source_dir)
    THEN [ret |-> [success |-> FALSE, message |-> "directory not found"],
          dirs |-> D, files |-> F]
    ELSE LET D0 == D \cup Prefixes(content_dir)
             md_files == Walk(D0, F, order, source_dir, source_dir)
         IN IF NoMarkdown(md_files)
            THEN [ret |-> [success |-> FALSE, message |-> "no markdown file found"],
                  dirs |-> D0, files |-> F]
            ELSE LET st == ImportAll([dirs |-> D0, files |-> F, stats |-> EmptyDirStats,
                                      created_categories |-> {}], source_dir, md_files)
                 IN [ret |-> IF Succeeded(st.stats)
                             THEN [success |-> TRUE, stats |-> st.stats]
                             ELSE [success |-> FALSE, message |-> "nothing copied"],
                     dirs |-> st.dirs, files |-> st.files]

\* POST /api/import-directory
ImportFromDirectory(directory_path, order) ==
    /\ Len(dirImports) < MaxImports
    /\ LET done == ImportFrom(dirs, fileData, directory_path, order) IN
       /\ dirs' = done.dirs
       /\ fileData' = done.files
       /\ dirImports' = Append(dirImports,
                               [directory_path |-> directory_path, ret |-> done.ret,
                                dirs |-> dirs, files |-> fileData])
    /\ UNCHANGED <<summaries, aiCall, readVars, uploadVars, sideVars>>

\* the directory the imports read: /src/a
source_root == <<"src", "a">>

\* the paths import_from_directory is called with: the source directory, a
\* path that does not exist, a path that may be a regular file
DirectoryPaths == {source_root, <<"src", "none">>, source_root \o <<"n.txt">>}

\* the files the source directory can hold, relative to it
SourceFiles ==
    {<<"x.md">>, <<"n.txt">>, <<"a", "x.md">>, <<"b", "y.md">>, <<"b", "c", "x.md">>,
     <<".h", "x.md">>}

\* what the content tree can hold before the first import, relative to the
\* content root: nothing; the directory a; the directory a with an article;
\* the directory b; a regular file named b; every directory of the source
ContentBefore ==
    {[dirs |-> {}, files |-> {}],
     [dirs |-> {<<"a">>}, files |-> {}],
     [dirs |-> {<<"a">>}, files |-> {<<"a", "x.md">>}],
     [dirs |-> {<<"b">>}, files |-> {}],
     [dirs |-> {}, files |-> {<<"b">>}],
     [dirs |-> {<<"a">>, <<"b">>, <<"b", "c">>, <<".h">>}, files |-> {}]}

\* a path as one string
RECURSIVE PathString(_)
PathString(p) == IF p = <<>> THEN "" ELSE "/" \o Head(p) \o PathString(Tail(p))

\* what a file holds before the first import: every file has bytes of its own
BytesAt(p) ==
    [text |-> "bytes of " \o PathString(p), utf8 |-> TRUE, lines |-> <<<<"#", " ", Last(p)>>>>]

\* someone rewrites a source file between two imports (one file, once)
EditSource(p) ==
    /\ dirImports # <<>>
    /\ p \in DOMAIN fileData
    /\ \A f \in SourceFiles : source_root \o f \in DOMAIN fileData =>
                                  fileData[source_root \o f] = BytesAt(source_root \o f)
    /\ fileData' = [fileData EXCEPT ![p] = [text |-> "edited " \o @.text, utf8 |-> TRUE,
                                            lines |-> <<<<"edited">>>>]]
    /\ UNCHANGED <<dirs, summaries, importVars, readVars, uploadVars, sideVars>>

NextDir ==
    \/ \E d \in DirectoryPaths : \E order \in ListOrders : ImportFromDirectory(d, order)
    \/ \E f \in SourceFiles : EndsWithMd(Last(f)) /\ EditSource(source_root \o f)

InitDir ==
    \E fs \in SUBSET SourceFiles : \E pre \in ContentBefore :
        /\ dirs = Prefixes(content_dir) \cup {content_dir \o d : d \in pre.dirs}
                  \cup UNION {Prefixes(source_root \o Front(f)) : f \in fs}
                  \cup Prefixes(source_root)
        /\ fileData = [p \in {content_dir \o f : f \in pre.files}
                               \cup {source_root \o f : f \in fs} |-> BytesAt(p)]
        /\ summaries = << >>
        /\ IdleImport
        /\ NoReads
        /\ NoSideCalls
        /\ NoImports

SpecDir == InitDir /\ [][NextDir]_vars

\* -------------------------------------------- AIService.summarize_article
\* A string is a sequence of tokens (" " is whitespace), an article text a
\* sequence of lines. A call either returns a value or raises an exception.
Returned(v) == [raised |-> "none", returns |-> TRUE, value |-> v]

Raised(e) == [raised |-> e, returns |-> FALSE, value |-> <<>>]

\* a block that ended without a return statement
Pending == [raised |-> "none", returns |-> FALSE, value |-> <<>>]

\* try: r except <classes>: handled
Except(r, classes, handled) == IF r.raised \in classes THEN handled ELSE r

\* except requests.exceptions.RequestException
RequestExceptions == {"RequestException"}

\* except Exception
Exceptions == {"RequestException", "Exception"}

\* line[:200]
EXCERPT_LEN == 200

\* lines 240-244: the first line that, stripped, is neither empty nor a heading
RECURSIVE FirstParagraph(_)
FirstParagraph(lines) ==
    IF lines = <<>> THEN <<>>
    ELSE LET line == Strip(Head(lines)) IN
         IF line # <<>> /\ Head(line) # "#" THEN line ELSE FirstParagraph(Tail(lines))

\* _simple_summary(content)
SimpleSummary(content) ==
    LET line == FirstParagraph(content) IN
    IF line # <<>>
    THEN <<"This is an auto-generated summary: ">>
             \o SubSeq(line, 1, Min(EXCERPT_LEN, Len(line))) \o <<"...">>
    ELSE <<"No summary available.">>

\* _summarize_with_deepseek: the answer of a 200 response with choices,
\* stripped; "" for every other response and every exception
SummarizeWithDeepseek(content, response) ==
    LET request ==
            CASE response.kind = "answer" -> Returned(Strip(response.text))
              [] response.kind \in {"no_choices", "status"} -> Returned(<<>>)
              [] response.kind = "request_exception" -> Raised("RequestException")
              [] OTHER -> Raised("Exception")
    IN Except(Except(request, RequestExceptions, Returned(<<>>)), Exceptions, Returned(<<>>))

\* _summarize_with_sankuai: the streamed text, stripped, when some was
\* received; the local summary otherwise
SummarizeWithSankuai(content, response) ==
    LET request ==
            CASE response.kind = "answer" ->
                     IF response.text # <<>> THEN Returned(Strip(response.text))
                     ELSE Returned(SimpleSummary(content))
              [] response.kind \in {"no_choices", "status"} -> Returned(SimpleSummary(content))
              [] response.kind = "request_exception" -> Raised("RequestException")
              [] OTHER -> Raised("Exception")
    IN Except(Except(request, RequestExceptions, Returned(SimpleSummary(content))),
              Exceptions, Returned(SimpleSummary(content)))

\* _summarize_with_openai
SummarizeWithOpenai(content, response) ==
    LET request ==
            CASE response.kind = "answer" -> Returned(Strip(response.text))
              [] response.kind = "status" -> Returned(SimpleSummary(content))
              [] response.kind = "request_exception" -> Raised("RequestException")
              [] OTHER -> Raised("Exception")
    IN Except(request, Exceptions, Returned(SimpleSummary(content)))

\* lines 36, 41, 47 for a provider's result that is returned as it is
Answered_Always(summary) == TRUE

\* lines 36, 41, 47: if summary
Answered(summary) == summary # <<>>

\* line 13: self.use_deepseek = True
use_deepseek == TRUE

\* lines 31-49: the try block
TryProviders(content, api_key, deepseek, sankuai, openai) ==
    LET d == IF use_deepseek THEN SummarizeWithDeepseek(content, deepseek) ELSE Pending
        s == SummarizeWithSankuai(content, sankuai)
        o == SummarizeWithOpenai(content, openai)
    IN IF d.raised # "none" THEN d
       ELSE IF use_deepseek /\ Answered(d.value) THEN d
       ELSE IF s.raised # "none" THEN s
       ELSE IF Answered(s.value) THEN s
       ELSE IF api_key = None THEN Pending
       ELSE IF o.raised # "none" THEN o
       ELSE IF Answered(o.value) THEN o
       ELSE Pending

\* summarize_article(content)
SummarizeArticle(content, api_key, deepseek, sankuai, openai) ==
    LET r == Except(TryProviders(content, api_key, deepseek, sankuai, openai),
                    Exceptions, Pending)
    IN IF r.raised # "none" \/ r.returns THEN r ELSE Returned(SimpleSummary(content))

\* the article texts the summarizer is called with: empty; a blank line; a
\* heading alone; a heading, a blank line and a padded paragraph; a paragraph;
\* an indented heading; a paragraph that ends in '#'
ArticleTexts ==
    {<<>>,
     <<<<" ">>>>,
     <<<<"#", " ", "T">>>>,
     <<<<"#", " ", "T">>, <<>>, <<" ", "w1", " ", "w2", " ">>, <<"w3">>>>,
     <<<<"w1">>>>,
     <<<<" ", "#", "T">>, <<"w2">>>>,
     <<<<"w1", "#">>>>}

\* what a provider's text can be: a summary, a padded summary, whitespace, nothing
AnswerTexts == {<<"s1">>, <<" ", "s2", " ">>, <<" ">>, <<>>}

\* what a request to a provider can come to: a 200 response with a text, a 200
\* response without choices, another status, a request exception (a timeout
\* is one), any other exception
Responses ==
    {[kind |-> "answer", text |-> t] : t \in AnswerTexts}
        \cup {[kind |-> k, text |-> <<>>] :
                  k \in {"no_choices", "status", "request_exception", "exception"}}

\* AIService(api_key): no key, or a key
ApiKeys == {None, "key"}

\* ai_service.summarize_article(article.content)
CallSummarizer ==
    /\ ~aiCall.called
    /\ aiCall' = [aiCall EXCEPT !.called = TRUE,
                                !.result = SummarizeArticle(aiCall.content, aiCall.api_key,
                                                            aiCall.deepseek, aiCall.sankuai,
                                                            aiCall.openai)]
    /\ UNCHANGED <<diskVars, dirImports, readVars, uploadVars, sideVars>>

NextAI == CallSummarizer

InitAI ==
    /\ \E content \in ArticleTexts : \E api_key \in ApiKeys :
           \E deepseek, sankuai, openai \in Responses :
               aiCall = [called |-> FALSE, content |-> content, api_key |-> api_key,
                         deepseek |-> deepseek, sankuai |-> sankuai, openai |-> openai,
                         result |-> Pending]
    /\ dirs = Prefixes(content_dir)
    /\ fileData = << >>
    /\ summaries = << >>
    /\ dirImports = <<>>
    /\ IdleImport
    /\ NoReads
    /\ NoSideCalls

SpecAI == InitAI /\ [][NextAI]_vars

\* ------------------------------------------------ the data files on disk
\* settings.COMMENTS_FILE and settings.SUMMARIES_FILE, beside the content root
COMMENTS_FILE == <<"data", "comments.json">>

SUMMARIES_FILE == <<"data", "summaries.json">>

\* "./content" of the directory the service runs in
local_content == <<"run", "content">>

\* json.dump(mapping, f): a file that holds a JSON object
JsonFile(mapping) == [text |-> "json", utf8 |-> TRUE, lines |-> <<>>, json |-> mapping]

\* lines 33-36: the parent directory of a data file exists (and is writable)
ParentUsable(D, file) == IsDir(D, Front(file))

\* lines 28-41: the data files of a repository constructed on the disk D
DataFiles(D) ==
    IF ParentUsable(D, COMMENTS_FILE) /\ ParentUsable(D, SUMMARIES_FILE)
    THEN [comments_file |-> COMMENTS_FILE, summaries_file |-> SUMMARIES_FILE]
    ELSE [comments_file |-> Append(local_content, "comments.json"),
          summaries_file |-> Append(local_content, "summaries.json")]

\* lines 51, 55 for a construction that writes the file whatever is there
Missing_Always(D, F, file) == TRUE

\* lines 51, 55: if not file.exists()
Missing(D, F, file) == ~Exists(D, F, file)

\* _ensure_data_files
EnsureDataFiles(D, F) ==
    LET data_files == DataFiles(D)
        D1 == D \cup Prefixes(Front(data_files.comments_file))
        F1 == IF Missing(D1, F, data_files.comments_file)
              THEN WriteFile(F, data_files.comments_file, JsonFile(<< >>))
              ELSE F
        F2 == IF Missing(D1, F1, data_files.summaries_file)
              THEN WriteFile(F1, data_files.summaries_file, JsonFile(<< >>))
              ELSE F1
    IN [dirs |-> D1, files |-> F2]

\* ContentService(): the content directory, then the data files
Constructed(D, F) == EnsureDataFiles(D \cup Prefixes(content_dir), F)

\* _load_comments, _load_summaries: {} without the file, json.load(f) with it
\* (which raises when the file holds no JSON)
LoadJson(F, file) ==
    IF ~IsFile(F, file) THEN [ok |-> TRUE, data |-> << >>]
    ELSE IF "json" \in DOMAIN F[file] THEN [ok |-> TRUE, data |-> F[file].json]
    ELSE [ok |-> FALSE, data |-> << >>]

\* a request that only constructs the repository (every read does)
Reinitialize ==
    /\ LET made == Constructed(dirs, fileData) IN
       /\ dirs' = made.dirs
       /\ fileData' = made.files
    /\ call' = [endpoint |-> "construct"]
    /\ UNCHANGED <<summaries, comments, added, lastSaved, categoryList, callers,
                   readVars, uploadVars, importVars>>

\* a request that constructs the repository and calls add_comment
RepoAddComment(article_id, author, content) ==
    /\ Count(added) < MaxRepoComments
    /\ LET made == Constructed(dirs, fileData)
           comments_file == DataFiles(made.dirs).comments_file
           comments_data == LoadJson(made.files, comments_file)
           comment == NewComment(Count(added) + 1, article_id, author, content)
       IN /\ dirs' = made.dirs
          /\ IF comments_data.ok
             THEN /\ fileData' = WriteFile(made.files, comments_file,
                                           JsonFile(WithComment(comments_data.data,
                                                                article_id, comment)))
                  /\ added' = Recorded(added, article_id, comment)
             ELSE /\ fileData' = made.files
                  /\ UNCHANGED added
    /\ call' = [endpoint |-> "add_comment"]
    /\ UNCHANGED <<summaries, comments, lastSaved, categoryList, callers,
                   readVars, uploadVars, importVars>>

\* a request that constructs the repository and calls save_summary
RepoSaveSummary(article_id, summary) ==
    /\ LET made == Constructed(dirs, fileData)
           summaries_file == DataFiles(made.dirs).summaries_file
           summaries_data == LoadJson(made.files, summaries_file)
       IN /\ dirs' = made.dirs
          /\ IF summaries_data.ok
             THEN /\ fileData' = WriteFile(made.files, summaries_file,
                                           JsonFile(WithSummary(summaries_data.data,
                                                                article_id, summary)))
                  /\ lastSaved' = Remembered(lastSaved, article_id, summary)
             ELSE /\ fileData' = made.files
                  /\ UNCHANGED lastSaved
    /\ call' = [endpoint |-> "save_summary"]
    /\ UNCHANGED <<summaries, comments, added, categoryList, callers,
                   readVars, uploadVars, importVars>>

\* the article ids of the requests: "a/x.md", "a/zz.md"
RepoIds == {<<"a", "x.md">>, <<"a", "zz.md">>}

\* the uploaded file of the requests, and the categories it can come with
RepoNames == <<<<"comments.json">>>>

RepoCategories == {<<"a">>, <<"..", "data">>}

NextRepo ==
    \/ Reinitialize
    \/ \E a \in RepoIds : RepoAddComment(a, "ann", "A")
    \/ RepoSaveSummary(<<"a", "x.md">>, "X")
    \/ \E order \in ListOrders :
           Len(dirImports) < MaxRepoImports /\ ImportFromDirectory(source_root, order)
    \/ Next

\* the data directory exists or not; the data files are not there yet; the
\* source directory holds a/x.md; one upload is about to start, whose
\* summarizer raises
InitRepo ==
    \E data \in SUBSET {Front(COMMENTS_FILE)} : \E category \in RepoCategories :
        /\ dirs = Prefixes(content_dir) \cup data \cup Prefixes(source_root \o <<"a">>)
        /\ fileData = [p \in {source_root \o <<"a", "x.md">>} |-> BytesAt(p)]
        /\ summaries = << >>
        /\ UploadCall(RepoNames, [k \in 1..1 |-> [cat |-> category, utf8 |-> TRUE,
                                                  fault |-> "summarize"]], TRUE)

SpecRepo == InitRepo /\ [][NextRepo]_vars

\* ------------------------------------------------------------- claims
InGate == {t \in Tasks : pc[t] \in {"reading", "summarizing"}}

BatchOf(t) == (t - 1) \div BATCH_SIZE

\* the import reached its aggregation and returned from it
AggregationDone == mainpc = "returned" /\ ret.message # "cannot create content directory"

\* file t's bytes are on disk (every uploaded file has its own text)
Written(t) == \E p \in DOMAIN fileData : p \notin DOMAIN initFiles /\ fileData[p] = files[t].content

\* file t's summary is in the summaries store
SummarySaved(t) ==
    \E a \in DOMAIN summaries : summaries[a].summary = SummaryOf(files[t].content)

\* the top-level directories of the content tree in D
TopLevel(D) == {p[2] : p \in {q \in D : Len(q) = 2 /\ q[1] = content_dir[1]}}

Range(f) == {f[k] : k \in DOMAIN f}

\* C1: at most MAX_CONCURRENT per-file tasks are inside the admission gate
\* (reading, writing or summarizing) in every reachable state.
GateBound == Cardinality(InGate) <= MAX_CONCURRENT

GateFull == Cardinality(InGate) = MAX_CONCURRENT /\ \E t \in Tasks : pc[t] = "pending"

\* C2: a file without a category is counted neither as an article nor as an
\* error: stats.errors is exactly the number of files whose placement raised.
SoftSkipIsNoError ==
    (mainpc = "returned" /\ ret.success) =>
        stats.errors = Cardinality({t \in Tasks : taskResult[t].reason = "error"})

\* C3: a file whose bytes were written is counted in stats.articles whatever
\* happens to its summary, and stats.summaries_generated counts the files whose
\* summary was generated and saved.
SummaryFailureKeepsArticle ==
    AggregationDone =>
        /\ stats.articles = Cardinality({t \in Tasks : Written(t)})
        /\ stats.summaries_generated = Cardinality({t \in Tasks : SummarySaved(t)})

AllSummariesFailed ==
    /\ AggregationDone
    /\ Len(files) >= 2
    /\ \A t \in Tasks : files[t].fault \in {"summarize", "save"} \/ ~Utf8(files[t].content)
    /\ stats.articles = Len(files)
    /\ stats.summaries_generated = 0

\* C4: the import returns a failure with a message exactly when no file was
\* placed, and success as soon as one file was placed, whatever else failed.
FailureIffNothingPlaced ==
    mainpc = "returned" =>
        /\ ret.success <=> \E t \in Tasks : Written(t)
        /\ ~ret.success => ret.message # ""

SuccessDespiteErrors ==
    /\ mainpc = "returned"
    /\ ret.success
    /\ \E t \in Tasks : taskResult[t].reason = "error"

\* C5: after a successful import stats.categories_created holds, without
\* duplicates, exactly the top-level directories the import created, and
\* stats.categories is its length.
CreatedCategoriesExact ==
    (mainpc = "returned" /\ ret.success) =>
        /\ Range(stats.categories_created) = TopLevel(dirs) \ TopLevel(initDirs)
        /\ Cardinality(Range(stats.categories_created)) = Len(stats.categories_created)
        /\ stats.categories = Len(stats.categories_created)

\* process_file for file t run on its own on the disk (D, F)
Alone(D, F, t) ==
    IF files[t].filename \notin DOMAIN categories
    THEN [result |-> ResNoCategory, dirs |-> D, files |-> F]
    ELSE LET chain == MkdirChain(D, F, categories[files[t].filename], 1, content_dir, <<>>)
             target == JoinPart(chain.path, Basename(files[t].filename))
         IN IF \/ ~chain.ok
               \/ files[t].fault \in {"read", "write"}
               \/ ~CanOpenForWrite(chain.dirs, F, target)
            THEN [result |-> ResError, dirs |-> chain.dirs, files |-> F]
            ELSE [result |-> ResPlaced(chain.created_cats,
                                       /\ Utf8(files[t].content)
                                       /\ files[t].fault \notin {"summarize", "save"}),
                  dirs |-> chain.dirs,
                  files |-> WriteFile(F, target, files[t].content)]

\* the results of the files from t on, each processed to its end before the next
RECURSIVE OneByOne(_, _, _)
OneByOne(D, F, t) ==
    IF t > Len(files) THEN <<>>
    ELSE LET r == Alone(D, F, t) IN <<r.result>> \o OneByOne(r.dirs, r.files, t + 1)

SequentialStats ==
    Aggregated(EmptyStats, OneByOne(initDirs \cup Prefixes(content_dir), initFiles, 1))

\* C6: the returned stats are a function of the inputs alone (they are what
\* processing the files one by one in input order gives), under every
\* interleaving of the tasks, and they are computed after every task resolved.
StatsDeterministic ==
    AggregationDone =>
        /\ \A t \in Tasks : pc[t] = "done"
        /\ stats = SequentialStats

CompletedOutOfOrder ==
    \E t, u \in Tasks :
        /\ t < u
        /\ pc[t] = "reading"
        /\ pc[u] = "done"
        /\ taskResult[u].success
        /\ created_cats[t] # <<>>

\* C7: no task of a later batch is created, admitted or started before every
\* task of the batches before it has resolved.
BatchesSequential ==
    \A t, u \in Tasks :
        (BatchOf(t) < BatchOf(u) /\ pc[u] # "uncreated") => pc[t] = "done"

SecondBatchRunning == \E u \in Tasks : BatchOf(u) = 1 /\ pc[u] = "reading"

\* C8: while one file's summarizer call is in progress, the other admitted
\* files can progress through their own read, write and summarizer steps.
SummarizerOverlaps ==
    \A t, u \in Tasks :
        (pc[t] = "summarizing" /\ pc[u] = "reading") => ENABLED ReadReturn(u)

\* C9: every article summary that get_articles_by_category returns (asked for
\* a category id without empty segments) is found by get_article under its id,
\* with the same id, path and category_id, the id without its last segment.
ListedArticlesResolve ==
    \A k \in 1..Len(listed) :
        (fetchedId = listed[k].id /\ \A j \in 1..Len(listedFor) : listedFor[j] # "") =>
            /\ fetched.found
            /\ fetched.id = listed[k].id
            /\ fetched.path = listed[k].path
            /\ fetched.category_id = listed[k].category_id
            /\ listed[k].category_id = Front(listed[k].id)

\* C10: get_article returns the article whenever its whole article_id names an
\* existing (readable) file directly under the content root, with or without a '/'.
LegacyIdResolves ==
    LET whole == JoinStr(content_dir, fetchedId) IN
    (/\ fetchedId # NoQuery
     /\ ~IsAbsolute(fetchedId)
     /\ Len(whole) = Len(content_dir) + 1
     /\ IsFile(fileData, whole)
     /\ Utf8(fileData[whole])) => fetched.found

\* C11: whichever of the four entry points (fetch article, list comments, add
\* comment, summarize) is called with a (category_id, filename) pair, the
\* article id it derives is category_id + "/" + filename, the id each of the
\* other three derives from the same pair.
EntryPointsDeriveSameId ==
    call.endpoint # "none" =>
        /\ call.article_id = call.category_id \o call.filename
        /\ GetArticleId(call.category_id, call.filename) = call.article_id
        /\ GetCommentsId(call.category_id, call.filename) = call.article_id
        /\ AddCommentId(call.category_id, call.filename) = call.article_id
        /\ SummarizeArticleId(call.category_id, call.filename) = call.article_id

NestedCommentAdded ==
    /\ call.endpoint = "add_comment"
    /\ Len(call.filename) > 1
    /\ call.status = 200
    /\ call.article_id \in DOMAIN comments

\* a path of the content tree without the content root
Below(p) == SubSeq(p, Len(content_dir) + 1, Len(p))

\* the directories below the content root
TreeDirsBelow == {d \in dirs : Len(d) > Len(content_dir)}

\* the directories the last get_categories call returned
ListedPaths == {categoryList.categories[k].path : k \in 1..Len(categoryList.categories)}

\* no name on the way from the content root to d starts with '.'
NonHiddenChain(d) == \A k \in 1..Len(Below(d)) : ~IsHidden(Below(d)[k])

\* d holds a markdown file
MdFileIn(d) ==
    \E n \in ListDir(dirs, fileData, d) : EndsWithMd(n) /\ IsFile(fileData, Append(d, n))

\* d holds a subdirectory that is not hidden
VisibleSubdirIn(d) ==
    \E n \in ListDir(dirs, fileData, d) : IsDir(dirs, Append(d, n)) /\ ~IsHidden(n)

\* d or a directory below it holds a markdown file
MdFileInOrBelow(d) ==
    \E e \in dirs : Len(e) >= Len(d) /\ SubSeq(e, 1, Len(d)) = d /\ MdFileIn(e)

\* C12: get_categories returns exactly the non-hidden directories, reached through
\* non-hidden qualifying ancestors, that directly hold a markdown file or a
\* subdirectory that is not hidden (a directory whose only entry is a hidden
\* subdirectory is left out).
CategoriesAreQualifyingDirs ==
    categoryList.called =>
        ListedPaths =
            {d \in TreeDirsBelow :
                /\ NonHiddenChain(d)
                /\ \A k \in (Len(content_dir) + 1)..Len(d) :
                       MdFileIn(SubSeq(d, 1, k)) \/ VisibleSubdirIn(SubSeq(d, 1, k))}

\* C13 as stated: a directory is in the result of get_categories if and only if
\* it or a directory below it holds a markdown file.
CategoryIffMarkdownBelow ==
    categoryList.called =>
        \A d \in TreeDirsBelow : d \in ListedPaths <=> MdFileInOrBelow(d)

\* C13: a directory that is not hidden and has no hidden ancestor is in the
\* result of get_categories if it or a directory below it holds a markdown
\* file (a directory without any markdown below it can be in the result too).
CategoryIfMarkdownBelow ==
    categoryList.called =>
        \A d \in TreeDirsBelow : (NonHiddenChain(d) /\ MdFileInOrBelow(d)) => d \in ListedPaths

DeepMarkdownListsAncestor ==
    /\ categoryList.called
    /\ content_dir \o <<"a">> \in ListedPaths
    /\ ~MdFileIn(content_dir \o <<"a">>)
    /\ ~MdFileIn(content_dir \o <<"a", "b">>)
    /\ MdFileIn(content_dir \o <<"a", "b", "c">>)

\* C14: in the list get_categories returns, a category with an id of several
\* segments comes after the category whose id is that id without its last
\* segment; every id is the chain of directory names from the content root,
\* name is its last segment, and no id occurs twice.
CategoriesParentFirst ==
    categoryList.called =>
        LET cs == categoryList.categories IN
        \A k \in 1..Len(cs) :
            /\ cs[k].id = Below(cs[k].path)
            /\ cs[k].name = Last(cs[k].id)
            /\ Len(cs[k].id) > 1 => \E j \in 1..(k - 1) : cs[j].id = Front(cs[k].id)
            /\ \A j \in 1..Len(cs) : j # k => cs[j].id # cs[k].id

NestedChainThenSibling ==
    /\ categoryList.called
    /\ \E k \in 1..Len(categoryList.categories) :
           /\ Len(categoryList.categories[k].id) = 3
           /\ \E j \in (k + 1)..Len(categoryList.categories) :
                  Len(categoryList.categories[j].id) = 1

\* the markdown files below root that are reached through non-hidden subdirectories
MdFilesUnder(root) ==
    {p \in DOMAIN fileData :
        /\ Len(p) > Len(root)
        /\ SubSeq(p, 1, Len(root)) = root
        /\ EndsWithMd(Last(p))
        /\ \A k \in (Len(root) + 1)..(Len(p) - 1) : ~IsHidden(p[k])}

\* C15: get_articles_by_category(c) returns one summary for every markdown
\* file at any depth under c's directory (through non-hidden subdirectories)
\* and nothing else, with category_id the lineage of the file's parent
\* directory and id = category_id + "/" + filename; it returns the empty list
\* when c's directory does not exist.
ListedExactlyMarkdownFiles ==
    listedFor # NoQuery =>
        LET root == JoinStr(content_dir, listedFor) IN
        IF ~IsDir(dirs, root) THEN listed = <<>>
        ELSE /\ {listed[k].path : k \in 1..Len(listed)} = MdFilesUnder(root)
             /\ Len(listed) = Cardinality(MdFilesUnder(root))
             /\ \A k \in 1..Len(listed) :
                    /\ listed[k].category_id =
                           listedFor \o SubSeq(listed[k].path, Len(root) + 1,
                                               Len(listed[k].path) - 1)
                    /\ listed[k].id = listed[k].category_id \o <<Last(listed[k].path)>>

\* the lines of a text that are not empty
NonEmptyLines(content) == SelectSeq(content.lines, LAMBDA line : line # <<>>)

\* the title the claim gives a file: its first non-empty line without leading
\* '#' and surrounding whitespace, its name when there is no such line or the
\* bytes do not decode
ClaimedTitle(content, name) ==
    IF ~Utf8(content) \/ NonEmptyLines(content) = <<>>
    THEN <<name>>
    ELSE Strip(LStripHash(Head(NonEmptyLines(content))))

\* C16: the title get_articles_by_category and get_article give an article is
\* the first non-empty line of its file with leading '#' and surrounding
\* whitespace stripped, and the filename when the file is empty or unreadable.
TitleIsFirstNonEmptyLine ==
    /\ \A k \in 1..Len(listed) :
           IsFile(fileData, listed[k].path) =>
               listed[k].title = ClaimedTitle(fileData[listed[k].path], Last(listed[k].path))
    /\ fetched.found => fetched.title = ClaimedTitle(fetched.content, Last(fetched.path))

\* the comments add_comment was called with for article a, in call order
AddedTo(a) == IF a \in DOMAIN added THEN added[a] ELSE <<>>

\* C17: after any sequence of add_comment calls, get_comments(a) is the list of
\* the comments added to a in call order, and the comment_count that
\* get_article and get_articles_by_category report for a is its length.
CommentsInCallOrder ==
    \A a \in StoreIds \cup DOMAIN added :
        /\ GetComments(comments, a) = AddedTo(a)
        /\ LET article == GetArticle(dirs, fileData, summaries, comments, a) IN
           article.found => article.comment_count = Len(AddedTo(a))
        /\ LET articles == GetArticlesByCategory(dirs, fileData, summaries, comments, <<"a">>) IN
           \A k \in 1..Len(articles) :
               articles[k].id = a => articles[k].comment_count = Len(AddedTo(a))

TwoCommentsThenAnother ==
    /\ Len(AddedTo(<<"a", "x.md">>)) = 2
    /\ AddedTo(<<"a", "x.md">>)[1].content = "A"
    /\ AddedTo(<<"a", "x.md">>)[2].content = "B"
    /\ Len(AddedTo(<<"a", "b", "y.md">>)) = 1
    /\ AddedTo(<<"a", "b", "y.md">>)[1].created_at = 2
    /\ GetArticle(dirs, fileData, summaries, comments, <<"a", "x.md">>).found
    /\ Len(GetArticlesByCategory(dirs, fileData, summaries, comments, <<"a">>)) = 2

\* C19: after any sequence of save_summary calls the summaries store holds one
\* record for each article id a summary was saved for and none for the others,
\* its text is the text of the last save_summary call for that id, and that
\* text is the summary get_article returns.
SummaryIsLastSaved ==
    /\ DOMAIN summaries = DOMAIN lastSaved
    /\ \A a \in DOMAIN lastSaved :
           /\ summaries[a].summary = lastSaved[a].summary
           /\ LET article == GetArticle(dirs, fileData, summaries, comments, a) IN
              article.found => article.summary = lastSaved[a].summary

SavedXThenY ==
    /\ <<"a", "x.md">> \in DOMAIN lastSaved
    /\ lastSaved[<<"a", "x.md">>].previous = "X"
    /\ lastSaved[<<"a", "x.md">>].summary = "Y"
    /\ GetArticle(dirs, fileData, summaries, comments, <<"a", "x.md">>).found
    /\ GetArticle(dirs, fileData, summaries, comments, <<"a", "x.md">>).summary = "Y"

\* C20: a request to the add-comment entry point whose identifier get_article
\* does not resolve is answered with not-found and leaves the comments store as
\* it was; the store changes only by a request to that entry point whose
\* identifier get_article resolves, and only in that identifier's list.
CommentOnlyForResolved ==
    [][LET resolved == GetArticle(dirs, fileData, summaries, comments,
                                  call'.article_id).found
       IN /\ (call'.endpoint = "add_comment" /\ ~resolved) =>
                 (call'.status = 404 /\ comments' = comments)
          /\ comments' # comments =>
                 /\ call'.endpoint = "add_comment"
                 /\ call'.status = 200
                 /\ resolved
                 /\ \A a \in DOMAIN comments : a # call'.article_id => comments'[a] = comments[a]
                 /\ DOMAIN comments' = DOMAIN comments \cup {call'.article_id}]_vars

NotFoundAfterComment ==
    /\ call.endpoint = "add_comment"
    /\ call.status = 404
    /\ Len(call.filename) > 1
    /\ comments # << >>
    /\ ~GetArticle(dirs, fileData, summaries, comments, call.article_id).found

\* C18: when add_comment calls for different articles overlap, with the load and
\* save steps of one between those of the other, each article's comment list
\* holds its new comment after all of them completed.
ConcurrentAddsBothStored ==
    (\A p \in DOMAIN callers : callers[p].pc = "done") =>
        \A p \in DOMAIN callers :
            (\A q \in DOMAIN callers \ {p} : callers[q].article_id # callers[p].article_id) =>
                \E k \in 1..Len(CommentsFor(comments, callers[p].article_id)) :
                    comments[callers[p].article_id][k].id = callers[p].comment.id

\* the markdown files at any depth below source_dir on the disk F
SourceMdFiles(F, source_dir) ==
    {p \in DOMAIN F : /\ Len(p) > Len(source_dir)
                      /\ SubSeq(p, 1, Len(source_dir)) = source_dir
                      /\ EndsWithMd(Last(p))}

\* the part of a disk that lies in the content tree
ContentDirsOf(D) == {p \in D : Len(p) > Len(content_dir) /\ SubSeq(p, 1, Len(content_dir)) = content_dir}

ContentFilesOf(F) ==
    [p \in {q \in DOMAIN F : SubSeq(q, 1, Len(content_dir)) = content_dir} |-> F[p]]

\* the disk as the k-th import_from_directory call left it
DirsAfter(k) == IF k < Len(dirImports) THEN dirImports[k + 1].dirs ELSE dirs

FilesAfter(k) == IF k < Len(dirImports) THEN dirImports[k + 1].files ELSE fileData

\* C21: import_from_directory returns a failure with a message when its path is
\* not an existing directory and when the source tree holds no markdown file
\* at any depth, and then the content tree has the directories and files it
\* had before the call.
FailedImportsTouchNothing ==
    \A k \in 1..Len(dirImports) :
        LET c == dirImports[k] IN
        (~IsDir(c.dirs, c.directory_path) \/ SourceMdFiles(c.files, c.directory_path) = {}) =>
            /\ ~c.ret.success
            /\ c.ret.message # ""
            /\ ContentDirsOf(DirsAfter(k)) = ContentDirsOf(c.dirs)
            /\ ContentFilesOf(FilesAfter(k)) = ContentFilesOf(c.files)

BothKindsOfFailure ==
    /\ Len(dirImports) = 2
    /\ ~IsDir(dirImports[1].dirs, dirImports[1].directory_path)
    /\ ~dirImports[1].ret.success
    /\ dirImports[2].directory_path = source_root
    /\ IsFile(dirImports[2].files, source_root \o <<"n.txt">>)
    /\ ~dirImports[2].ret.success

\* the categories import_from_directory derives for the markdown files of a source
SourceCategories(F, source_dir) ==
    {CategoryOf(source_dir, RelPath(Front(p), source_dir)) : p \in SourceMdFiles(F, source_dir)}

SourceTopLevels(F, source_dir) == {c[1] : c \in SourceCategories(F, source_dir)}

\* a category whose directory cannot exist on the disk F: a regular file is in the way
BlockedCategory(F, category) ==
    \E q \in Prefixes(JoinStr(content_dir, category)) : IsFile(F, q)

\* a call that finds markdown files and in which no copy can fail
CopiesAllSucceed(c) ==
    /\ IsDir(c.dirs, c.directory_path)
    /\ SourceMdFiles(c.files, c.directory_path) # {}
    /\ \A category \in SourceCategories(c.files, c.directory_path) :
           ~BlockedCategory(c.files, category)

\* no category directory of the source exists in the content tree before the call
FreshCategories(c) ==
    \A category \in SourceCategories(c.files, c.directory_path) :
        ~Exists(c.dirs, c.files, JoinStr(content_dir, category))

\* C22 as stated: with N markdown files across K top-level categories and no
\* copy failing, the import returns success with articles = N and
\* categories = K, whatever the content tree holds before.
ImportCountsRegardless ==
    \A k \in 1..Len(dirImports) :
        LET c == dirImports[k] IN
        CopiesAllSucceed(c) =>
            /\ c.ret.success
            /\ c.ret.stats.articles = Cardinality(SourceMdFiles(c.files, c.directory_path))
            /\ c.ret.stats.categories =
                   Cardinality(SourceTopLevels(c.files, c.directory_path))

\* C22 amended: with no copy failing the import returns success with
\* articles = N; categories is at most K, and is K when none of the source's
\* category directories exists in the content tree before the call.
ImportCountsWhenFresh ==
    \A k \in 1..Len(dirImports) :
        LET c == dirImports[k]
            K == Cardinality(SourceTopLevels(c.files, c.directory_path))
        IN CopiesAllSucceed(c) =>
               /\ c.ret.success
               /\ c.ret.stats.articles = Cardinality(SourceMdFiles(c.files, c.directory_path))
               /\ c.ret.stats.categories <= K
               /\ FreshCategories(c) => c.ret.stats.categories = K

FreshImportOfNestedSource ==
    \E k \in 1..Len(dirImports) :
        LET c == dirImports[k] IN
        /\ CopiesAllSucceed(c)
        /\ FreshCategories(c)
        /\ {source_root \o <<"b", "y.md">>, source_root \o <<"b", "c", "x.md">>,
            source_root \o <<".h", "x.md">>} \subseteq DOMAIN c.files
        /\ c.ret.success
        /\ c.ret.stats.articles >= 3
        /\ c.ret.stats.categories = 2

\* C23: after import_from_directory, categories_created has no duplicates,
\* categories is its length, and it holds exactly the top-level category names
\* whose directory under the content root did not exist before the import and
\* exists after it (a nested directory created below an existing top-level
\* category reports nothing).
CreatedTopLevelsExact ==
    \A k \in 1..Len(dirImports) :
        LET c == dirImports[k] IN
        c.ret.success =>
            LET created == c.ret.stats.categories_created IN
            /\ \A m, n \in 1..Len(created) : created[m] = created[n] => m = n
            /\ c.ret.stats.categories = Len(created)
            /\ Range(created) =
                   {t \in SourceTopLevels(c.files, c.directory_path) :
                        /\ ~Exists(c.dirs, c.files, Append(content_dir, t))
                        /\ IsDir(DirsAfter(k), Append(content_dir, t))}

\* the category and the target of a markdown file p of the source
CategoryOfFile(source_dir, p) == CategoryOf(source_dir, RelPath(Front(p), source_dir))

TargetOf(source_dir, p) ==
    Append(JoinStr(content_dir, CategoryOfFile(source_dir, p)), Last(p))

\* the markdown files of a call whose copy cannot fail
Copyable(c) ==
    {p \in SourceMdFiles(c.files, c.directory_path) :
         ~BlockedCategory(c.files, CategoryOfFile(c.directory_path, p))}

\* C24: once a markdown file is found the import returns success with stats,
\* however many copies fail; every file whose copy can succeed is placed,
\* whatever failed before it, and articles counts exactly those files.
FailedCopiesDoNotStopImport ==
    \A k \in 1..Len(dirImports) :
        LET c == dirImports[k] IN
        (IsDir(c.dirs, c.directory_path) /\ SourceMdFiles(c.files, c.directory_path) # {}) =>
            /\ c.ret.success
            /\ c.ret.stats.articles = Cardinality(Copyable(c))
            /\ \A p \in Copyable(c) : IsFile(FilesAfter(k), TargetOf(c.directory_path, p))

SomeCopiesFailed ==
    \E k \in 1..Len(dirImports) :
        LET c == dirImports[k] IN
        /\ IsFile(c.files, content_dir \o <<"b">>)
        /\ {source_root \o <<"b", "y.md">>, source_root \o <<"b", "c", "x.md">>,
            source_root \o <<"a", "x.md">>, source_root \o <<".h", "x.md">>}
               = SourceMdFiles(c.files, c.directory_path)
        /\ c.ret.success
        /\ c.ret.stats.articles = 2
        /\ IsFile(FilesAfter(k), content_dir \o <<"a", "x.md">>)
        /\ IsFile(FilesAfter(k), content_dir \o <<".h", "x.md">>)

\* C29: after import_from_directory every source file counted in articles is in
\* the content tree at content_root/<category>/<name> with the content of
\* that source file, and articles is the number of distinct files placed.
CountedFilesPlacedIntact ==
    \A k \in 1..Len(dirImports) :
        LET c == dirImports[k] IN
        c.ret.success =>
            /\ \A p \in Copyable(c) :
                   /\ IsFile(FilesAfter(k), TargetOf(c.directory_path, p))
                   /\ FilesAfter(k)[TargetOf(c.directory_path, p)] = c.files[p]
            /\ c.ret.stats.articles =
                   Cardinality({TargetOf(c.directory_path, p) : p \in Copyable(c)})

\* the files of the source directory as a call found them
SourceOf(c) ==
    [p \in {q \in DOMAIN c.files : SubSeq(q, 1, Len(c.directory_path)) = c.directory_path}
        |-> c.files[p]]

\* two imports of the same source directory, the first one successful
ImportedTwice ==
    /\ Len(dirImports) = 2
    /\ dirImports[1].directory_path = dirImports[2].directory_path
    /\ dirImports[1].ret.success

\* a second run on an unchanged source leaves the content tree as the first
\* run left it and returns the same articles with categories = 0
SecondRunChangesNothing ==
    (ImportedTwice /\ SourceOf(dirImports[1]) = SourceOf(dirImports[2])) =>
        /\ ContentDirsOf(dirs) = ContentDirsOf(dirImports[2].dirs)
        /\ ContentFilesOf(fileData) = ContentFilesOf(dirImports[2].files)
        /\ dirImports[2].ret.success
        /\ dirImports[2].ret.stats.articles = dirImports[1].ret.stats.articles
        /\ dirImports[2].ret.stats.categories = 0

\* a source file modified between the runs and counted by the second run has
\* its new content in the content tree after it
ModifiedSourceReplaces ==
    ImportedTwice =>
        \A p \in Copyable(dirImports[2]) :
            dirImports[2].files[p] # dirImports[1].files[p] =>
                FilesAfter(2)[TargetOf(dirImports[2].directory_path, p)] = dirImports[2].files[p]

\* C30: import_from_directory is idempotent on the content tree (a second run
\* on an unchanged source changes nothing and returns the same articles with
\* categories = 0), and a re-imported modified source file replaces the
\* content imported before.
ReimportIdempotent == SecondRunChangesNothing /\ ModifiedSourceReplaces

\* C28: after a successful import every file counted in articles is returned by
\* get_articles_by_category for its category with the id
\* "<category>/<filename>", and that category and each of its ancestors
\* appear in get_categories.
ImportedFilesAreListed ==
    dirImports # <<>> =>
        LET c == dirImports[Len(dirImports)] IN
        c.ret.success =>
            \A p \in Copyable(c) :
                LET category == CategoryOfFile(c.directory_path, p)
                    listing == GetArticlesByCategory(dirs, fileData, summaries, comments,
                                                     category)
                IN /\ \E n \in DOMAIN listing : listing[n].id = Append(category, Last(p))
                   /\ \A order \in ListOrders : \A m \in 1..Len(category) :
                          \E x \in Range(GetCategories(dirs, fileData, order)) :
                              x.id = SubSeq(category, 1, m)

\* a provider that gives no usable summary
ProviderFailed(response) == response.kind # "answer" \/ Strip(response.text) = <<>>

\* C25: summarize_article raises nothing and returns a non-empty string for
\* every combination of provider outcomes, and when every remote provider
\* fails the result is the local excerpt summary of the article text.
SummaryAlwaysReturned ==
    aiCall.called =>
        /\ aiCall.result.raised = "none"
        /\ aiCall.result.returns
        /\ aiCall.result.value # <<>>
        /\ (/\ ProviderFailed(aiCall.deepseek)
            /\ ProviderFailed(aiCall.sankuai)
            /\ aiCall.api_key # None => ProviderFailed(aiCall.openai))
               => aiCall.result.value = SimpleSummary(aiCall.content)

AllProvidersFailed ==
    /\ aiCall.called
    /\ aiCall.deepseek.kind = "request_exception"
    /\ aiCall.sankuai = [kind |-> "answer", text |-> <<" ">>]
    /\ aiCall.api_key # None
    /\ aiCall.openai.kind = "status"
    /\ Len(aiCall.content) = 4
    /\ aiCall.result.value = <<"This is an auto-generated summary: ", "w1", " ", "w2", "...">>

\* the key import_from_uploads saves the summary of task t under
SummaryKey(t) == categories[files[t].filename] \o <<Basename(files[t].filename)>>

\* C27: after import_from_uploads returns, for every file reported with a
\* generated summary the summaries store holds, under "<category>/<basename>",
\* the text the summarizer returned for a file with that key, and get_article
\* on that key returns that summary.
GeneratedSummariesReadable ==
    mainpc = "returned" =>
        \A t \in Tasks :
            taskResult[t].summary_generated =>
                LET key == SummaryKey(t)
                    article == GetArticle(dirs, fileData, summaries, comments, key)
                IN /\ key \in DOMAIN summaries
                   /\ \E u \in Tasks :
                          /\ files[u].filename \in DOMAIN categories
                          /\ SummaryKey(u) = key
                          /\ summaries[key].summary = SummaryOf(files[u].content)
                   /\ article.found
                   /\ article.summary = summaries[key].summary

\* the outcomes of a file: placed, skipped for no category, failed
Outcomes(t) ==
    {o \in {"placed", "skipped", "failed"} :
         \/ o = "placed" /\ taskResult[t].success
         \/ o = "skipped" /\ ~taskResult[t].success /\ taskResult[t].reason = "no_category"
         \/ o = "failed" /\ ~taskResult[t].success /\ taskResult[t].reason = "error"}

\* at the aggregation every file has one outcome, nothing waits at the gate
\* and every permit is free
AggregatedClean ==
    ((mainpc = "loop" /\ i >= Len(files)) \/ AggregationDone) =>
        /\ \A t \in Tasks : pc[t] = "done" /\ Cardinality(Outcomes(t)) = 1
        /\ Len(results) = Len(files)
        /\ semaphore = MAX_CONCURRENT

\* C26: every import_from_uploads call eventually returns when each read and
\* each summarizer call returns or raises; every file has exactly one outcome
\* before the aggregation, no task stays blocked at the gate and every permit
\* is free at the return, also when the processing of a file raised.
UploadsReturn == <>(mainpc = "returned") /\ []AggregatedClean

ReturnedAfterFullGate ==
    /\ AggregationDone
    /\ Len(files) > MAX_CONCURRENT
    /\ \E t \in Tasks : Outcomes(t) = {"failed"}
    /\ Cardinality({t \in Tasks : Outcomes(t) = {"placed"}}) >= MAX_CONCURRENT
    /\ semaphore = MAX_CONCURRENT

\* a path inside the content root
InContentRoot(p) ==
    Len(p) >= Len(content_dir) /\ SubSeq(p, 1, Len(content_dir)) = content_dir

\* the directories the import created and the files it wrote
CreatedByImport ==
    (dirs \ initDirs)
        \cup {p \in DOMAIN fileData : p \notin DOMAIN initFiles \/ fileData[p] # initFiles[p]}

\* C33: every directory import_from_uploads creates and every file it writes
\* lies inside the content root, for every category string (with ".."
\* segments, empty segments or a leading '/') and every file name.
UploadStaysInContentRoot == \A p \in CreatedByImport : InContentRoot(p)

\* what _load_comments of a freshly constructed repository reads on the disk D, F
CommentsOnDisk(D, F) ==
    LET made == Constructed(D, F) IN
    LoadJson(made.files, DataFiles(made.dirs).comments_file)

\* the stored comment list of article a
StoredList(D, F, a) == CommentsFor(CommentsOnDisk(D, F).data, a)

\* a step leaves the stored list of a alone, or is an add_comment for a that
\* put one comment at its end
ListKeptOrExtended(a) ==
    /\ CommentsOnDisk(dirs, fileData).ok => CommentsOnDisk(dirs', fileData').ok
    /\ \/ StoredList(dirs', fileData', a) = StoredList(dirs, fileData, a)
       \/ /\ AddedTo(a)' # AddedTo(a)
          /\ Front(AddedTo(a)') = AddedTo(a)
          /\ StoredList(dirs', fileData', a)
                = Appended(StoredList(dirs, fileData, a), Last(AddedTo(a)'))

\* C31: over any sequence of add_comment, save_summary, import_from_directory,
\* import_from_uploads and re-initialization requests, the stored comment list
\* of every article changes only by an add_comment for that article putting
\* one comment at its end
CommentsOnlyAppended == [][\A a \in RepoIds : ListKeptOrExtended(a)]_vars

\* the requests of which no upload names a category that leaves the content root
InitRepoInside == InitRepo /\ categories[<<"comments.json">>] = <<"a">>

SpecRepoInside == InitRepoInside /\ [][NextRepo]_vars


\* the summary that _load_summaries of a freshly constructed repository reads
\* for article a on the disk D, F
StoredSummary(D, F, a) ==
    LET made == Constructed(D, F) IN
    SummaryFor(LoadJson(made.files, DataFiles(made.dirs).summaries_file).data, a)

\* C32: constructing the repository leaves every existing file as it is and
\* creates nothing but the comments and summaries files, as empty mappings,
\* where they are absent; constructing it once more changes nothing at all
ConstructionKeepsStores ==
    LET made == Constructed(dirs, fileData)
        data_files == DataFiles(made.dirs)
        again == Constructed(made.dirs, made.files)
    IN /\ \A p \in DOMAIN fileData : IsFile(made.files, p) /\ made.files[p] = fileData[p]
       /\ \A p \in DOMAIN made.files \ DOMAIN fileData :
             /\ p \in {data_files.comments_file, data_files.summaries_file}
             /\ made.files[p] = JsonFile(<< >>)
       /\ again = made

\* the last request constructed the repository again over two stored
\* comments and a stored summary
ReinitializedOverStores ==
    /\ call.endpoint = "construct"
    /\ Len(StoredList(dirs, fileData, <<"a", "x.md">>)) = 2
    /\ StoredList(dirs, fileData, <<"a", "x.md">>) = Appended(Appended(<<>>, AddedTo(<<"a", "x.md">>)[1]), AddedTo(<<"a", "x.md">>)[2])
    /\ StoredSummary(dirs, fileData, <<"a", "x.md">>) = "X"
    /\ lastSaved[<<"a", "x.md">>].summary = "X"

=============================================================================
